---- MODULE Spec2Model ----
(***************************************************************************)
(* labelgate reconciliation engine: the reconciler loop, the three         *)
(* resource operators (DNS, Tunnel ingress, Access), the SQLite ledger and *)
(* the orphan cleanup, over an abstract Cloudflare account.                *)
(***************************************************************************)
EXTENDS Integers, Sequences, FiniteSets, TLC

\* ------------------------------------------------------------------ bounds
MaxTime == 2          \* the clock stops advancing here
MaxPasses == 4        \* the loop goroutine runs at most this many passes
MaxApps == 3          \* no pass starts once the account holds this many apps
MaxFaults == 1        \* at most this many passes meet a failure
MaxLabels == 4        \* a hostname has at most this many labels
MaxConns == 3         \* the agent server accepts at most this many connections

\* ------------------------------------------------- configuration constants
RemoveDelay == 1      \* sync.remove_delay, in clock ticks
TriggerDepth == 1     \* make(chan struct{}, 1)
OrphanTTLs == {0, 1}  \* the values of sync.orphan_ttl explored (0 = disabled)

NoId == <<>>
Kinds == {"dns", "tunnel_ingress", "access_app"}
APIs == {"dns", "tunnel", "access"}      \* the remote APIs a pass may find failing
StatusActive == "active"
StatusOrphaned == "orphaned"
StatusError == "error"

ErrAPI == "api error"                    \* transient remote failure
ErrNoRecord == "cannot update: record not found in Cloudflare and no CFID in storage"
ErrConflict == "ext already exists for hostname, not managed by labelgate"

PublicIP == "pubip"
ZoneOf == "zone1"
DefaultTunnel == "default"

\* tunnel credentials: tunnel name -> tunnel id
TunnelIDOf(name) == "t1"

\* ------------------------------------------------------------- containers
ContainerIds == {"c2", "c3", "c4"}
AgentIds == {"a1"}

ParsedContainer(id) ==
  CASE id = "c2" ->
        [id |-> "c2", agentID |-> "", ip |-> "cip2",
         dns |-> << >>,
         tunnels |-> << [serviceName |-> "app", hostname |-> "h1", service |-> "s1",
                         tunnel |-> "", path |-> "", originRequest |-> "", cleanup |-> TRUE,
                         access |-> "pol"] >>,
         policies |-> {"pol"}]
    [] id = "c3" ->
        [id |-> "c3", agentID |-> "", ip |-> "cip3",
         dns |-> << >>,
         tunnels |-> << [serviceName |-> "adm", hostname |-> "h2", service |-> "s2",
                         tunnel |-> "", path |-> "", originRequest |-> "", cleanup |-> FALSE,
                         access |-> "pol"] >>,
         policies |-> {"pol"}]
    [] id = "c6" ->
        [id |-> "c6", agentID |-> "", ip |-> "cip6",
         dns |-> << >>,
         tunnels |-> << [serviceName |-> "adm6", hostname |-> "h2", service |-> "s6",
                         tunnel |-> "", path |-> "", originRequest |-> "", cleanup |-> TRUE,
                         access |-> ""] >>,
         policies |-> {}]
    [] id = "c7" ->
        [id |-> "c7", agentID |-> "", ip |-> "cip7",
         dns |-> << >>,
         tunnels |-> << [serviceName |-> "api", hostname |-> "h4", service |-> "s7",
                         tunnel |-> "t1", path |-> "", originRequest |-> "", cleanup |-> TRUE,
                         access |-> ""] >>,
         policies |-> {}]
    [] id = "c8" ->
        [id |-> "c8", agentID |-> "", ip |-> "cip8",
         dns |-> << >>,
         tunnels |-> << [serviceName |-> "site", hostname |-> "h5", service |-> "s8",
                         tunnel |-> "", path |-> "", originRequest |-> "", cleanup |-> TRUE,
                         access |-> ""],
                        [serviceName |-> "siteapi", hostname |-> "h5", service |-> "s9",
                         tunnel |-> "", path |-> "/api", originRequest |-> "5m", cleanup |-> TRUE,
                         access |-> ""] >>,
         policies |-> {}]
    [] id = "c10" ->
        [id |-> "c10", agentID |-> "a1", ip |-> "cip10",
         dns |-> << [serviceName |-> "web10", hostname |-> "h1", type |-> "A",
                     target |-> "ip9", proxied |-> TRUE, ttl |-> 1,
                     cleanup |-> FALSE, access |-> ""] >>,
         tunnels |-> << >>,
         policies |-> {}]
    [] id = "c11" ->
        [id |-> "c11", agentID |-> "", ip |-> "cip11",
         dns |-> << [serviceName |-> "web11", hostname |-> "h1", type |-> "A",
                     target |-> "ip2", proxied |-> FALSE, ttl |-> 1,
                     cleanup |-> FALSE, access |-> "pol"] >>,
         tunnels |-> << [serviceName |-> "tun11", hostname |-> "h1", service |-> "s11",
                         tunnel |-> "", path |-> "", originRequest |-> "", cleanup |-> TRUE,
                         access |-> "ghost"] >>,
         policies |-> {}]
    [] id = "c12" ->
        [id |-> "c12", agentID |-> "a1", ip |-> "cip12",
         dns |-> << >>, tunnels |-> << >>, policies |-> {"pol"}]
    [] id = "c5" ->
        [id |-> "c5", agentID |-> "a2", ip |-> "cip5",
         dns |-> << [serviceName |-> "web5", hostname |-> "h3", type |-> "A",
                     target |-> "ip5", proxied |-> FALSE, ttl |-> 1,
                     cleanup |-> TRUE, access |-> ""] >>,
         tunnels |-> << >>,
         policies |-> {}]
    [] OTHER ->
        [id |-> "c4", agentID |-> "a1", ip |-> "cip4",
         dns |-> << [serviceName |-> "web2", hostname |-> "h1", type |-> "A",
                     target |-> "ip2", proxied |-> FALSE, ttl |-> 1,
                     cleanup |-> FALSE, access |-> ""],
                    [serviceName |-> "v6", hostname |-> "h1", type |-> "AAAA",
                     target |-> "container", proxied |-> FALSE, ttl |-> 1,
                     cleanup |-> TRUE, access |-> ""] >>,
         tunnels |-> << [serviceName |-> "tun", hostname |-> "h1", service |-> "s4",
                         tunnel |-> "", path |-> "", originRequest |-> "", cleanup |-> TRUE,
                         access |-> ""] >>,
         policies |-> {}]

LocalIds == {"c2", "c3"}
UnlabelledIds == {"c9"}
AgentSnapshots == { << >>, << "c4" >> }

\* ------------------------------------------------------------ sequences
Range(s) == { s[i] : i \in 1..Len(s) }

RECURSIVE SeqOfSet(_)
SeqOfSet(S) == IF S = {} THEN << >>
               ELSE LET x == CHOOSE y \in S : TRUE IN << x >> \o SeqOfSet(S \ {x})

Perms(S) == { p \in [1..Cardinality(S) -> S] : Range(p) = S }

RECURSIVE Flatten(_)
Flatten(ss) == IF ss = << >> THEN << >> ELSE Head(ss) \o Flatten(Tail(ss))

\* ----------------------------------------------------------------- ledger
BlankRow ==
  [id |-> NoId, kind |-> "", cfid |-> NoId, zoneID |-> "", hostname |-> "",
   recordType |-> "", content |-> "", proxied |-> FALSE, ttl |-> 0,
   tunnelID |-> "", service |-> "", path |-> "", accessAppID |-> NoId,
   containerID |-> "", serviceName |-> "", agentID |-> "",
   status |-> "", cleanup |-> FALSE, lastError |-> "", updatedAt |-> 0]

UniqueKey(r) == << r.kind, r.hostname, r.recordType >>

\* uuid.New(): an id no other row carries
NewID(r) == UniqueKey(r)

\* SaveResource: INSERT ... ON CONFLICT(resource_type, hostname, record_type)
\* DO UPDATE
SaveResourceInsertOnly(led, r, t) ==
  led \cup { [(IF r.id = NoId THEN [r EXCEPT !.id = NewID(r)] ELSE r) EXCEPT !.updatedAt = t] }

SaveResource(led, r, t) ==
  LET withId == IF r.id = NoId THEN [r EXCEPT !.id = NewID(r)] ELSE r
      hit == { x \in led : UniqueKey(x) = UniqueKey(r) }
  IN  IF hit = {}
      THEN led \cup { [withId EXCEPT !.updatedAt = t] }
      ELSE (led \ hit) \cup
           { [withId EXCEPT !.id = x.id, !.updatedAt = t] : x \in hit }

UpdateResourceStatus(led, id, status, t) ==
  { IF x.id = id THEN [x EXCEPT !.status = status, !.updatedAt = t] ELSE x : x \in led }

UpdateResourceError(led, id, status, msg, t) ==
  { IF x.id = id THEN [x EXCEPT !.status = status, !.lastError = msg, !.updatedAt = t]
    ELSE x : x \in led }

DeleteResource(led, id) == { x \in led : x.id # id }

ListResources(led, kind) ==
  { x \in led : x.kind = kind /\ x.status \in {StatusActive, StatusError, StatusOrphaned} }

ListOrphanedForCleanup(led, olderThan) ==
  { x \in led : x.status = StatusOrphaned /\ x.cleanup /\ x.updatedAt < olderThan }

\* ListExpiredOrphans: WHERE status = 'orphaned' AND cleanup_enabled = FALSE
\* AND updated_at < ?
ListExpiredOrphansAnyCleanup(led, olderThan) ==
  { x \in led : x.status = StatusOrphaned /\ x.updatedAt < olderThan }

ListExpiredOrphans(led, olderThan) ==
  { x \in led : x.status = StatusOrphaned /\ ~x.cleanup /\ x.updatedAt < olderThan }

\* ------------------------------------------------------ remote call journal
Call(api, op, key) == [api |-> api, op |-> op, key |-> key]

\* the world an operator acts on: ledger, remote DNS records, remote tunnel
\* rule lists, remote Access applications, and the journal of mutating calls
World(led, d, tn, ap, pol, cl) ==
  [ledger |-> led, dns |-> d, tunnels |-> tn, apps |-> ap, accessPolicies |-> pol, calls |-> cl]

\* ------------------------------------------------------------ remote DNS
\* a remote record is identified by its name and type
RecID(name, type) == << name, type >>

NoRecord == [name |-> "", type |-> "", content |-> "", proxied |-> FALSE]

GetRecordByName(w, dn, name, type) ==
  IF "dns" \in dn THEN [err |-> ErrAPI, rec |-> NoRecord]
  ELSE IF \E x \in w.dns : x.name = name /\ x.type = type
       THEN [err |-> "", rec |-> CHOOSE x \in w.dns : x.name = name /\ x.type = type]
       ELSE [err |-> "", rec |-> NoRecord]          \* nil, nil: not found

HasRecord(w, name, type) == \E x \in w.dns : x.name = name /\ x.type = type

\* ------------------------------------------------------------ DNS operator
resolveTarget(target, c) ==
  CASE target \in {"auto", ""} -> PublicIP
    [] target = "container"    -> c.ip
    [] OTHER                   -> target

needsUpdate(current, s) ==
  \/ (s.target # "auto" /\ s.target # current.content)
  \/ s.proxied # current.proxied
  \/ (s.ttl # current.ttl /\ s.ttl # 0)
  \/ s.serviceName # current.serviceName

\* a create that fails on "already exists" as on any other error
CreateDNSRecordNoAdoption(w, c, s, t, dn) ==
  LET issued == w.calls \cup { Call("dns", "create", RecID(s.hostname, s.type)) }
      row == [BlankRow EXCEPT !.kind = "dns", !.cfid = RecID(s.hostname, s.type),
                !.zoneID = ZoneOf, !.hostname = s.hostname, !.recordType = s.type,
                !.content = resolveTarget(s.target, c), !.proxied = s.proxied, !.ttl = s.ttl,
                !.containerID = c.id, !.serviceName = s.serviceName,
                !.status = StatusActive, !.cleanup = s.cleanup]
  IN  IF "dns" \in dn \/ HasRecord(w, s.hostname, s.type)
      THEN [w |-> [w EXCEPT !.calls = issued], err |-> ErrAPI, res |-> BlankRow]
      ELSE [w |-> [w EXCEPT !.calls = issued,
                            !.dns = w.dns \cup { [name |-> s.hostname, type |-> s.type,
                                                  content |-> row.content, proxied |-> s.proxied] },
                            !.ledger = SaveResource(w.ledger, row, t)],
            err |-> "", res |-> [row EXCEPT !.id = NewID(row)]]

\* returns the world after the call, the error ("" = nil) and the saved row
CreateDNSRecord(w, c, s, t, dn) ==
  LET target == resolveTarget(s.target, c)
      issued == w.calls \cup { Call("dns", "create", RecID(s.hostname, s.type)) }
      row == [BlankRow EXCEPT !.kind = "dns", !.cfid = RecID(s.hostname, s.type),
                !.zoneID = ZoneOf, !.hostname = s.hostname, !.recordType = s.type,
                !.content = target, !.proxied = s.proxied, !.ttl = s.ttl,
                !.containerID = c.id, !.serviceName = s.serviceName,
                !.status = StatusActive, !.cleanup = s.cleanup]
      saved == [row EXCEPT !.id = NewID(row)]
  IN  IF "dns" \in dn
      THEN [w |-> [w EXCEPT !.calls = issued], err |-> ErrAPI, res |-> BlankRow]
      ELSE IF HasRecord(w, s.hostname, s.type)
      THEN \* "already exists": look the record up and adopt it as it is
           [w |-> [w EXCEPT !.calls = issued,
                            !.ledger = SaveResource(w.ledger, row, t)],
            err |-> "", res |-> saved]
      ELSE [w |-> [w EXCEPT !.calls = issued,
                            !.dns = w.dns \cup { [name |-> s.hostname, type |-> s.type,
                                                  content |-> target, proxied |-> s.proxied] },
                            !.ledger = SaveResource(w.ledger, row, t)],
            err |-> "", res |-> saved]

\* returns the world after the call and the error ("" = nil)
UpdateDNSRecord(w, current, s, t, dn) ==
  LET needLookup == current.cfid = NoId \/ current.zoneID = ""
      look == GetRecordByName(w, dn, s.hostname, s.type)
      res1 == IF needLookup
              THEN [current EXCEPT !.cfid = RecID(look.rec.name, look.rec.type),
                                   !.zoneID = ZoneOf]
              ELSE current
      target == IF s.target \in {"auto", ""} THEN PublicIP ELSE s.target
      issued == w.calls \cup { Call("dns", "update", res1.cfid) }
      res2 == [res1 EXCEPT !.content = target, !.proxied = s.proxied, !.ttl = s.ttl,
                           !.serviceName = s.serviceName, !.cleanup = s.cleanup]
  IN  IF needLookup /\ (look.err # "" \/ look.rec = NoRecord)
      THEN [w |-> w, err |-> ErrNoRecord]
      ELSE IF "dns" \in dn \/ ~(\E x \in w.dns : RecID(x.name, x.type) = res1.cfid)
      THEN [w |-> [w EXCEPT !.calls = issued], err |-> ErrAPI]
      ELSE [w |-> [w EXCEPT !.calls = issued,
                            !.dns = { IF RecID(x.name, x.type) = res1.cfid
                                      THEN [x EXCEPT !.content = target, !.proxied = s.proxied]
                                      ELSE x : x \in w.dns },
                            !.ledger = SaveResource(w.ledger, res2, t)],
            err |-> ""]

\* desiredMap of the DNS operator: first container in the list wins a key
RECURSIVE dnsDesiredMap(_, _)
dnsDesiredMap(entries, seen) ==
  IF entries = << >> THEN << >>
  ELSE LET e == Head(entries)
           k == << e.service.hostname, e.service.type >>
       IN  IF k \in seen THEN dnsDesiredMap(Tail(entries), seen)
           ELSE << e >> \o dnsDesiredMap(Tail(entries), seen \cup {k})

dnsEntries(des) ==
  Flatten([i \in 1..Len(des) |->
             [j \in 1..Len(des[i].dns) |-> [container |-> des[i], service |-> des[i].dns[j]]]])

\* Reconcile, the create branch once CreateDNSRecord has returned cr
dnsAfterCreateNoErrorRow(cr, c, s, t) ==
  IF cr.err # "" THEN cr.w
  ELSE IF c.agentID # ""
  THEN [cr.w EXCEPT !.ledger =
          SaveResource(cr.w.ledger, [cr.res EXCEPT !.agentID = c.agentID], t)]
  ELSE cr.w

dnsAfterCreate(cr, c, s, t) ==
  IF cr.err # ""
  THEN [cr.w EXCEPT !.ledger =
          SaveResource(cr.w.ledger,
            [BlankRow EXCEPT !.kind = "dns", !.hostname = s.hostname,
               !.recordType = s.type, !.content = s.target,
               !.proxied = s.proxied, !.ttl = s.ttl, !.containerID = c.id,
               !.serviceName = s.serviceName, !.agentID = c.agentID,
               !.status = StatusError, !.lastError = cr.err,
               !.cleanup = s.cleanup], t)]
  ELSE IF c.agentID # ""
  THEN [cr.w EXCEPT !.ledger =
          SaveResource(cr.w.ledger, [cr.res EXCEPT !.agentID = c.agentID], t)]
  ELSE cr.w

\* an update branch that leaves the status as it was after a success
dnsAfterUpdateStatusKept(up, current, t) ==
  IF up.err # ""
  THEN [up.w EXCEPT !.ledger =
          UpdateResourceError(up.w.ledger, current.id, StatusError, up.err, t)]
  ELSE up.w

\* Reconcile, the update branch once UpdateDNSRecord has returned up
dnsAfterUpdate(up, current, t) ==
  IF up.err # ""
  THEN [up.w EXCEPT !.ledger =
          UpdateResourceError(up.w.ledger, current.id, StatusError, up.err, t)]
  ELSE IF current.lastError # "" \/ current.status # StatusActive
  THEN [up.w EXCEPT !.ledger =
          UpdateResourceError(up.w.ledger, current.id, StatusActive, "", t)]
  ELSE up.w

\* Reconcile, the branch of a key that has a row: w1 and current carry the
\* agent id already
dnsExisting(w1, current, s, t, dn) ==
  IF current.status = StatusError \/ current.status = StatusOrphaned
     \/ needsUpdate(current, s)
  THEN dnsAfterUpdate(UpdateDNSRecord(w1, current, s, t, dn), current, t)
  ELSE w1

\* one iteration of the create/update loop of Reconcile
dnsReconcileOne(w, e, t, dn) ==
  LET s == e.service
      c == e.container
      cur == { x \in ListResources(w.ledger, "dns") :
                 x.hostname = s.hostname /\ x.recordType = s.type }
      current0 == CHOOSE x \in cur : TRUE
  IN  IF cur = {}
      THEN dnsAfterCreate(CreateDNSRecord(w, c, s, t, dn), c, s, t)
      ELSE IF current0.agentID # c.agentID
      THEN dnsExisting([w EXCEPT !.ledger =
                          SaveResource(w.ledger, [current0 EXCEPT !.agentID = c.agentID], t)],
                       [current0 EXCEPT !.agentID = c.agentID], s, t, dn)
      ELSE dnsExisting(w, current0, s, t, dn)

RECURSIVE dnsReconcileAll(_, _, _, _)
dnsReconcileAll(w, entries, t, dn) ==
  IF entries = << >> THEN w
  ELSE dnsReconcileAll(dnsReconcileOne(w, Head(entries), t, dn), Tail(entries), t, dn)

\* a loop that stamps every row left, orphaned already or not
RECURSIVE markOrphansAgain(_, _, _)
markOrphansAgain(led, rows, t) ==
  IF rows = << >> THEN led
  ELSE markOrphansAgain(UpdateResourceStatus(led, Head(rows).id, StatusOrphaned, t),
                        Tail(rows), t)

\* rows left in currentMap after the loop are marked orphaned
RECURSIVE markOrphans(_, _, _)
markOrphans(led, rows, t) ==
  IF rows = << >> THEN led
  ELSE markOrphans(IF Head(rows).status # StatusOrphaned
                   THEN UpdateResourceStatus(led, Head(rows).id, StatusOrphaned, t)
                   ELSE led,
                   Tail(rows), t)

\* the last loop of an operator left out
orphanRestSkipped(w, rest, t) == w

\* the last loop of an operator's Reconcile, over the rows left in currentMap
orphanRest(w, rest, t) == [w EXCEPT !.ledger = markOrphans(w.ledger, SeqOfSet(rest), t)]

dnsKeys(dmap) ==
  { << dmap[i].service.hostname, dmap[i].service.type >> : i \in 1..Len(dmap) }

dnsReconcileMap(w, dmap, t, dn) ==
  orphanRest(dnsReconcileAll(w, dmap, t, dn),
             { y \in ListResources(w.ledger, "dns") :
                 << y.hostname, y.recordType >> \notin dnsKeys(dmap) }, t)

\* DNSOperatorImpl.Reconcile
DNSReconcile(w, des, t, dn) == dnsReconcileMap(w, dnsDesiredMap(dnsEntries(des), {}), t, dn)

\* --------------------------------------------------------- Tunnel operator
CatchAll == [hostname |-> "", path |-> "", service |-> "http_status:404", originRequest |-> 0]

TunnelTarget(tunnelID) == << tunnelID, "cfargotunnel.com" >>

tunnelName(s) == IF s.tunnel = "" THEN DefaultTunnel ELSE s.tunnel

tunnelEntries(des) ==
  Flatten([i \in 1..Len(des) |->
             [j \in 1..Len(des[i].tunnels) |->
                [container |-> des[i], service |-> des[i].tunnels[j]]]])

\* desiredMap of reconcileTunnel, in the order the ingress list is built
RECURSIVE tunnelDesiredMap(_, _)
tunnelDesiredMap(entries, seen) ==
  IF entries = << >> THEN << >>
  ELSE LET e == Head(entries)
           k == << e.service.hostname, e.service.path >>
       IN  IF k \in seen THEN tunnelDesiredMap(Tail(entries), seen)
           ELSE << e >> \o tunnelDesiredMap(Tail(entries), seen \cup {k})

ingressOf(e) == [hostname |-> e.service.hostname, path |-> e.service.path,
                 service |-> e.service.service, originRequest |-> e.service.originRequest]

\* The origin options of a service are its connect_timeout label, as written;
\* "" stands for no origin options.  The remote rule holds whole seconds.
\* parseDurationToSeconds: a Go duration, or a bare integer taken as seconds
parseDurationToSeconds(str) ==
  CASE str = "30s" -> 30
    [] str = "30" -> 30
    [] str = "5m" -> 300
    [] str = "300s" -> 300
    [] OTHER -> 0

\* convertGetResponseOriginRequest: fmt.Sprintf("%ds", seconds), nil when zero
convertGetResponseOriginRequest(secs) ==
  CASE secs = 30 -> "30s"
    [] secs = 300 -> "300s"
    [] OTHER -> ""

ingressConfigEqual(current, desiredIng) ==
  LET currentRules == SelectSeq(current, LAMBDA r : r.hostname # "")
      \* currentMap[key] = rule: a later rule with the same key overwrites
      lastOf(h, p) == CHOOSE j \in 1..Len(currentRules) :
                        /\ currentRules[j].hostname = h /\ currentRules[j].path = p
                        /\ \A k \in (j+1)..Len(currentRules) :
                             ~(currentRules[k].hostname = h /\ currentRules[k].path = p)
  IN  /\ Len(currentRules) = Len(desiredIng)
      /\ \A i \in 1..Len(desiredIng) :
           /\ \E j \in 1..Len(currentRules) :
                /\ currentRules[j].hostname = desiredIng[i].hostname
                /\ currentRules[j].path = desiredIng[i].path
           /\ currentRules[lastOf(desiredIng[i].hostname, desiredIng[i].path)].service
                = desiredIng[i].service
           /\ currentRules[lastOf(desiredIng[i].hostname, desiredIng[i].path)].originRequest
                = desiredIng[i].originRequest

\* TunnelClient.GetTunnelConfiguration: the rule list as the client returns it
GetTunnelConfiguration(w, tunnelID) ==
  [i \in 1..Len(w.tunnels[tunnelID]) |->
     [w.tunnels[tunnelID][i] EXCEPT !.originRequest = convertGetResponseOriginRequest(@)]]

\* TunnelClient.UpdateTunnelConfiguration: replaces the whole rule list; the
\* origin options go through convertOriginRequestToParams
UpdateTunnelConfiguration(w, tunnelID, ingresses, dn) ==
  LET issued == w.calls \cup { Call("tunnel", "replace", tunnelID) }
      params == [i \in 1..Len(ingresses) |->
                   [ingresses[i] EXCEPT !.originRequest = parseDurationToSeconds(@)]]
      full == IF Len(ingresses) = 0 \/ ingresses[Len(ingresses)].hostname # ""
              THEN Append(params, CatchAll) ELSE params
  IN  IF "tunnel" \in dn
      THEN [w |-> [w EXCEPT !.calls = issued], err |-> ErrAPI]
      ELSE [w |-> [w EXCEPT !.calls = issued, !.tunnels[tunnelID] = full], err |-> ""]

\* one iteration of ensureTunnelDNSRecords
ensureOne(w, tunnelID, e, dn) ==
  LET hostname == e.service.hostname
      look == GetRecordByName(w, dn, hostname, "CNAME")
      id == RecID(hostname, "CNAME")
  IN  IF hostname = "" THEN w
      ELSE IF look.err = "" /\ look.rec # NoRecord
      THEN IF look.rec.content = TunnelTarget(tunnelID) THEN w
           ELSE LET issued == w.calls \cup { Call("dns", "update", id) }
                IN  IF "dns" \in dn THEN [w EXCEPT !.calls = issued]
                    ELSE [w EXCEPT !.calls = issued,
                            !.dns = { IF RecID(x.name, x.type) = id
                                      THEN [x EXCEPT !.content = TunnelTarget(tunnelID),
                                                     !.proxied = TRUE]
                                      ELSE x : x \in w.dns }]
      ELSE LET issued == w.calls \cup { Call("dns", "create", id) }
           IN  IF "dns" \in dn \/ HasRecord(w, hostname, "CNAME")
               THEN [w EXCEPT !.calls = issued]
               ELSE [w EXCEPT !.calls = issued,
                       !.dns = w.dns \cup { [name |-> hostname, type |-> "CNAME",
                                             content |-> TunnelTarget(tunnelID),
                                             proxied |-> TRUE] }]

RECURSIVE ensureTunnelDNSRecords(_, _, _, _)
ensureTunnelDNSRecords(w, tunnelID, dmap, dn) ==
  IF dmap = << >> THEN w
  ELSE ensureTunnelDNSRecords(ensureOne(w, tunnelID, Head(dmap), dn), tunnelID, Tail(dmap), dn)

tunnelRow(e, tunnelID, status, msg) ==
  [BlankRow EXCEPT !.kind = "tunnel_ingress", !.tunnelID = tunnelID,
     !.hostname = e.service.hostname, !.service = e.service.service,
     !.path = e.service.path, !.containerID = e.container.id,
     !.serviceName = e.service.serviceName, !.agentID = e.container.agentID,
     !.status = status, !.lastError = msg, !.cleanup = e.service.cleanup]

\* the rows of `current` (a snapshot taken before the loop) matching an entry
currentOf(current, e) ==
  { x \in current : x.hostname = e.service.hostname /\ x.path = e.service.path }

\* the loop that records a failed push
RECURSIVE tunnelMarkFailed(_, _, _, _, _, _)
tunnelMarkFailed(led, current, dmap, tunnelID, msg, t) ==
  IF dmap = << >> THEN led
  ELSE LET e == Head(dmap)
           ex == currentOf(current, e)
           led1 == IF ex # {}
                   THEN UpdateResourceError(led, (CHOOSE x \in ex : TRUE).id,
                                            StatusError, msg, t)
                   ELSE SaveResource(led, tunnelRow(e, tunnelID, StatusError, msg), t)
       IN  tunnelMarkFailed(led1, current, Tail(dmap), tunnelID, msg, t)

\* the loop that records a successful (or skipped) push
RECURSIVE tunnelMarkActive(_, _, _, _, _)
tunnelMarkActive(led, current, dmap, tunnelID, t) ==
  IF dmap = << >> THEN led
  ELSE LET e == Head(dmap)
           ex == currentOf(current, e)
           existing == CHOOSE x \in ex : TRUE
           led1 == IF ex # {}
                   THEN SaveResource(led,
                          [existing EXCEPT !.service = e.service.service,
                                           !.cleanup = e.service.cleanup,
                                           !.agentID = e.container.agentID,
                                           !.status = StatusActive,
                                           !.lastError = ""], t)
                   ELSE SaveResource(led, tunnelRow(e, tunnelID, StatusActive, ""), t)
       IN  tunnelMarkActive(led1, current, Tail(dmap), tunnelID, t)

\* the rows of currentByTunnel[tunnelID] that no desired entry matches
tunnelRest(current, dmap) ==
  { x \in current : \A i \in 1..Len(dmap) : x \notin currentOf(current, dmap[i]) }

\* reconcileTunnel after a failed push: it returns after the loop that
\* records the failure; the rows of this tunnel that are not desired stay in
\* currentByTunnel and are orphaned by the last loop of Reconcile
tunnelPushFailed(w1, msg, tunnelID, dmap, current, t) ==
  [w1 EXCEPT !.ledger = tunnelMarkFailed(w1.ledger, current, dmap, tunnelID, msg, t)]

\* currentByTunnel after reconcileTunnel(name): a failed push has deleted the
\* keys it matched, any other return has deleted the whole entry of the tunnel
tunnelsLeft(resources, name, dmap, dn) ==
  LET current == { x \in resources : x.tunnelID = TunnelIDOf(name) }
  IN  IF "tunnel" \in dn
      THEN (resources \ current) \cup tunnelRest(current, dmap)
      ELSE resources \ current

\* reconcileTunnel after a push that went through or was not needed; w2 is
\* the world after ensureTunnelDNSRecords
tunnelPushDone(w2, tunnelID, dmap, current, t) ==
  [w2 EXCEPT !.ledger =
     markOrphans(tunnelMarkActive(w2.ledger, current, dmap, tunnelID, t),
                 SeqOfSet(tunnelRest(current, dmap)), t)]

tunnelAfterPush(push, tunnelID, dmap, current, t, dn) ==
  IF push.err # ""
  THEN tunnelPushFailed(push.w, push.err, tunnelID, dmap, current, t)
  ELSE tunnelPushDone(ensureTunnelDNSRecords(push.w, tunnelID, dmap, dn),
                      tunnelID, dmap, current, t)

reconcileTunnelMap(w, tunnelID, dmap, ingresses, current, t, dn) ==
  IF "tunnel" \in dn \/ ~ingressConfigEqual(GetTunnelConfiguration(w, tunnelID), ingresses)
  THEN tunnelAfterPush(UpdateTunnelConfiguration(w, tunnelID, ingresses, dn),
                       tunnelID, dmap, current, t, dn)
  ELSE tunnelPushDone(ensureTunnelDNSRecords(w, tunnelID, dmap, dn),
                      tunnelID, dmap, current, t)

tunnelIngresses(dmap) == [i \in 1..Len(dmap) |-> ingressOf(dmap[i])]

reconcileTunnelEntries(w, tunnelID, dmap, current, t, dn) ==
  reconcileTunnelMap(w, tunnelID, dmap, tunnelIngresses(dmap), current, t, dn)

\* reconcileTunnel; `current` is currentByTunnel[tunnelID] as listed by Reconcile
reconcileTunnel(w, name, entries, current, t, dn) ==
  reconcileTunnelEntries(w, TunnelIDOf(name), tunnelDesiredMap(entries, {}), current, t, dn)

RECURSIVE reconcileTunnels(_, _, _, _, _, _)
reconcileTunnels(w, names, entries, resources, t, dn) ==
  IF names = << >> THEN [w |-> w, left |-> resources]
  ELSE LET name == Head(names)
           mine == SelectSeq(entries, LAMBDA e : tunnelName(e.service) = name)
           current == { x \in resources : x.tunnelID = TunnelIDOf(name) }
       IN  reconcileTunnels(reconcileTunnel(w, name, mine, current, t, dn),
                            Tail(names), entries,
                            tunnelsLeft(resources, name, tunnelDesiredMap(mine, {}), dn),
                            t, dn)

\* TunnelOperatorImpl.Reconcile
TunnelReconcile(w, des, t, dn) ==
  LET entries == tunnelEntries(des)
      names == { tunnelName(entries[i].service) : i \in 1..Len(entries) }
      resources == ListResources(w.ledger, "tunnel_ingress")
  IN  CHOOSE done \in { orphanRest(r.w, r.left, t) :
                          r \in { reconcileTunnels(w, SeqOfSet(names), entries, resources, t, dn) } } :
        TRUE

\* TunnelOperatorImpl.RemoveIngressRule with TunnelClient.RemoveIngressRule
RemoveIngressRule(w, r, t, dn) ==
  LET cfg == GetTunnelConfiguration(w, r.tunnelID)
      kept == SelectSeq(cfg, LAMBDA x : x.hostname # "" /\ x.hostname # r.hostname)
      found == \E i \in 1..Len(cfg) : cfg[i].hostname # "" /\ cfg[i].hostname = r.hostname
      push == UpdateTunnelConfiguration(w, r.tunnelID, kept, dn)
  IN  IF "tunnel" \in dn THEN [w |-> w, err |-> ErrAPI]
      ELSE IF ~found
      THEN [w |-> [w EXCEPT !.ledger = DeleteResource(w.ledger, r.id)], err |-> ""]
      ELSE IF push.err # "" THEN push
      ELSE [w |-> [push.w EXCEPT !.ledger = DeleteResource(push.w.ledger, r.id)], err |-> ""]

\* --------------------------------------------------------- Access operator
ExtApp == [id |-> << "ext" >>, domain |-> "h2"]   \* an application made by hand

NewAppID(apps) ==
  << "app", CHOOSE n \in 1..(Cardinality(apps) + 1) :
               /\ \A a \in apps : a.id # << "app", n >>
               /\ \A m \in 1..(n - 1) : \E a \in apps : a.id = << "app", m >> >>

\* AccessClient.FindExistingAccessApp: the id of the first listed application
\* bound to the hostname, NoId when there is none
FindExistingAccessApp(w, hostname, dn) ==
  IF "access" \in dn THEN [err |-> ErrAPI, id |-> NoId]
  ELSE IF \E a \in w.apps : a.domain = hostname
       THEN [err |-> "", id |-> (CHOOSE a \in w.apps : a.domain = hostname).id]
       ELSE [err |-> "", id |-> NoId]

\* AccessClient.EnsureAccessForHostname (every template here has one policy).
\* A reusable policy is an account-level object: the hostname it was made
\* for, a number that tells it from the others, and the application it is
\* linked to (NoId while it is linked to none).  createReusablePolicy comes
\* first; cleanupOldAppPolicies deletes the policies linked to the
\* application and does nothing when they cannot be listed.
EnsureAccessForHostname(w, hostname, existingAppID, dn) ==
  LET c1 == w.calls \cup { Call("access", "policy_create", hostname) }
      c2 == c1 \cup { Call("access", "policy_delete", hostname),
                      Call("access", "update", hostname) }
      c3 == c1 \cup { Call("access", "create", hostname) }
      newID == NewAppID(w.apps)
      n == CHOOSE k \in 1..(Cardinality(w.accessPolicies) + 1) :
             \A p \in w.accessPolicies : p.n # k
      policy == [hostname |-> hostname, n |-> n, app |-> NoId]
  IN  IF "access" \in dn
      THEN [w |-> [w EXCEPT !.calls = c1], err |-> ErrAPI, id |-> NoId]
      ELSE IF existingAppID # NoId
      THEN IF \E a \in w.apps : a.id = existingAppID
           THEN [w |-> [w EXCEPT !.calls = c2,
                          !.accessPolicies =
                             { p \in w.accessPolicies : p.app # existingAppID }
                             \cup { [policy EXCEPT !.app = existingAppID] },
                          !.apps = { IF a.id = existingAppID
                                     THEN [a EXCEPT !.domain = hostname] ELSE a
                                     : a \in w.apps }],
                 err |-> "", id |-> existingAppID]
           ELSE [w |-> [w EXCEPT !.calls = c1 \cup { Call("access", "update", hostname) },
                          !.accessPolicies = w.accessPolicies \cup { policy }],
                 err |-> ErrAPI, id |-> NoId]
      ELSE [w |-> [w EXCEPT !.calls = c3,
                     !.accessPolicies = w.accessPolicies \cup { [policy EXCEPT !.app = newID] },
                     !.apps = w.apps \cup { [id |-> newID, domain |-> hostname] }],
            err |-> "", id |-> newID]

accessRow(b, status, msg) ==
  [BlankRow EXCEPT !.kind = "access_app", !.hostname = b.hostname,
     !.containerID = b.containerID, !.serviceName = b.serviceName,
     !.agentID = b.agentID, !.status = status, !.lastError = msg,
     !.cleanup = b.cleanup]

\* EnsureAccess once EnsureAccessForHostname has returned en
accessAfterEnsure(en, b, t) ==
  IF en.err # "" THEN [w |-> en.w, err |-> en.err]
  ELSE [w |-> [en.w EXCEPT !.ledger =
                 SaveResource(en.w.ledger,
                   [accessRow(b, StatusActive, "") EXCEPT !.cfid = en.id,
                                                          !.accessAppID = en.id], t)],
        err |-> ""]

\* the refusal of EnsureAccess: "access application %q (ID: %s) already exists
\* for hostname %s, not managed by labelgate": one message per application
conflictError(id) ==
  CASE id = ExtApp.id      -> ErrConflict
    [] id = << "app", 1 >> -> "app 1 already exists for hostname, not managed by labelgate"
    [] id = << "app", 2 >> -> "app 2 already exists for hostname, not managed by labelgate"
    [] id = << "app", 3 >> -> "app 3 already exists for hostname, not managed by labelgate"
    [] OTHER               -> "app already exists for hostname, not managed by labelgate"

\* EnsureAccess once the probe for an application of the hostname has returned
accessAfterProbeIgnored(probe, w, b, t, dn) ==
  accessAfterEnsure(EnsureAccessForHostname(w, b.hostname, NoId, dn), b, t)

accessAfterProbe(probe, w, b, t, dn) ==
  IF probe.err = "" /\ probe.id # NoId THEN [w |-> w, err |-> conflictError(probe.id)]
  ELSE accessAfterEnsure(EnsureAccessForHostname(w, b.hostname, NoId, dn), b, t)

\* AccessOperatorImpl.EnsureAccess
EnsureAccess(w, b, t, dn) ==
  accessAfterProbe(FindExistingAccessApp(w, b.hostname, dn), w, b, t, dn)

\* updateAccess once EnsureAccessForHostname has returned en: the id it
\* returns is dropped
accessAfterUpdate(en, existing, b, t) ==
  IF en.err # "" THEN [w |-> en.w, err |-> en.err]
  ELSE [w |-> [en.w EXCEPT !.ledger =
                 SaveResource(en.w.ledger,
                   [existing EXCEPT !.containerID = b.containerID,
                                    !.serviceName = b.serviceName,
                                    !.agentID = b.agentID, !.cleanup = b.cleanup], t)],
        err |-> ""]

\* AccessOperatorImpl.updateAccess
updateAccess(w, existing, b, t, dn) ==
  accessAfterUpdate(EnsureAccessForHostname(w, b.hostname, existing.accessAppID, dn),
                    existing, b, t)

\* ReconcileBindings, the branch of a hostname that has a row, once
\* updateAccess has returned up
accessExisting(up, existing, t) ==
  IF up.err # ""
  THEN [up.w EXCEPT !.ledger =
          UpdateResourceError(up.w.ledger, existing.id, StatusError, up.err, t)]
  ELSE IF existing.lastError # "" \/ existing.status # StatusActive
  THEN [up.w EXCEPT !.ledger =
          UpdateResourceError(up.w.ledger, existing.id, StatusActive, "", t)]
  ELSE up.w

\* ReconcileBindings, the branch of a hostname without a row, once
\* EnsureAccess has returned cr
accessCreated(cr, b, t) ==
  IF cr.err # ""
  THEN [cr.w EXCEPT !.ledger =
          SaveResource(cr.w.ledger, accessRow(b, StatusError, cr.err), t)]
  ELSE cr.w

accessRowsOf(w, hostname) ==
  { x \in ListResources(w.ledger, "access_app") : x.hostname = hostname }

accessWithRow(w, existing, b, t, dn) ==
  accessExisting(updateAccess(w, existing, b, t, dn), existing, t)

\* one iteration of the create-or-update loop of ReconcileBindings
accessReconcileOne(w, b, t, dn) ==
  IF accessRowsOf(w, b.hostname) # {}
  THEN accessWithRow(w, CHOOSE x \in accessRowsOf(w, b.hostname) : TRUE, b, t, dn)
  ELSE accessCreated(EnsureAccess(w, b, t, dn), b, t)

RECURSIVE accessReconcileAll(_, _, _, _)
accessReconcileAll(w, bs, t, dn) ==
  IF bs = << >> THEN w
  ELSE accessReconcileAll(accessReconcileOne(w, Head(bs), t, dn), Tail(bs), t, dn)

\* desiredMap[binding.Hostname] = binding: the last binding of a hostname stays
accessDesiredMap(bs) ==
  SelectSeq([i \in 1..Len(bs) |->
               IF \E k \in (i+1)..Len(bs) : bs[k].hostname = bs[i].hostname
               THEN [hostname |-> ""] ELSE bs[i]],
            LAMBDA b : b.hostname # "")

\* AccessOperatorImpl.ReconcileBindings
ReconcileBindings(w, bindings, t, dn) ==
  LET dmap == accessDesiredMap(bindings)
      hosts == { dmap[i].hostname : i \in 1..Len(dmap) }
  IN  orphanRest(accessReconcileAll(w, dmap, t, dn),
                 { x \in ListResources(w.ledger, "access_app") : x.hostname \notin hosts }, t)

\* AccessOperatorImpl.RemoveAccess
RemoveAccess(w, r, t, dn) ==
  LET issued == w.calls \cup { Call("access", "policy_delete", r.hostname),
                               Call("access", "delete", r.hostname) }
  IN  IF r.accessAppID = NoId
      THEN [w |-> [w EXCEPT !.ledger = DeleteResource(w.ledger, r.id)], err |-> ""]
      ELSE IF "access" \in dn \/ ~(\E a \in w.apps : a.id = r.accessAppID)
      THEN [w |-> [w EXCEPT !.calls = w.calls \cup { Call("access", "delete", r.hostname) }],
            err |-> ErrAPI]
      ELSE [w |-> [w EXCEPT !.calls = issued,
                     !.accessPolicies = { p \in w.accessPolicies : p.app # r.accessAppID },
                     !.apps = { a \in w.apps : a.id # r.accessAppID },
                     !.ledger = DeleteResource(w.ledger, r.id)],
            err |-> ""]

\* DNSOperatorImpl.DeleteDNSRecord: a record that is already gone counts as deleted
DeleteDNSRecord(w, r, t, dn) ==
  LET issued == w.calls \cup { Call("dns", "delete", r.cfid) }
  IN  IF "dns" \in dn THEN [w |-> [w EXCEPT !.calls = issued], err |-> ErrAPI]
      ELSE [w |-> [w EXCEPT !.calls = issued,
                     !.dns = { x \in w.dns : RecID(x.name, x.type) # r.cfid },
                     !.ledger = DeleteResource(w.ledger, r.id)],
            err |-> ""]

\* ------------------------------------------------- credentials and zones
\* A host or zone name is the sequence of its labels: "a.example.com" is
\* << "a", "example", "com" >>, and a name written with a trailing dot ends
\* with an empty label.
Hostnames ==
  LET Labels == {"a", "b", "example", "com"}
      plain == UNION { [1..n -> Labels] : n \in 1..MaxLabels }
  IN  plain \cup { h \o << "" >> : h \in plain }

\* strings.TrimSuffix(s, ".")
trimDot(s) == IF Len(s) >= 2 /\ s[Len(s)] = "" THEN SubSeq(s, 1, Len(s) - 1) ELSE s

\* strings.HasSuffix(s, "." + z)
hasDotSuffix(s, z) ==
  Len(s) > Len(z) /\ SubSeq(s, Len(s) - Len(z) + 1, Len(s)) = z

\* matchZone: the loop over the zones of one credential
RECURSIVE matchZones(_, _)
matchZones(zones, hostname) ==
  IF zones = << >> THEN FALSE
  ELSE LET zone == trimDot(Head(zones))
       IN  IF hostname = zone THEN TRUE
           ELSE IF hasDotSuffix(hostname, zone) THEN TRUE
           ELSE IF Len(zone) >= 2 /\ zone[1] = "*"
                   /\ (hostname = Tail(zone) \/ hasDotSuffix(hostname, Tail(zone)))
           THEN TRUE
           ELSE matchZones(Tail(zones), hostname)

matchZone(cred, hostname) == matchZones(cred.zones, trimDot(hostname))

\* the first credential of the list that has the name
RECURSIVE credentialNamed(_, _)
credentialNamed(credentials, name) ==
  IF credentials = << >> THEN [err |-> "credential not found", cred |-> [name |-> "", zones |-> << >>]]
  ELSE IF Head(credentials).name = name THEN [err |-> "", cred |-> Head(credentials)]
  ELSE credentialNamed(Tail(credentials), name)

\* the first credential of the list one of whose zones matches, else the default
RECURSIVE credentialForZone(_, _, _)
credentialForZone(credentials, defaultCredential, hostname) ==
  IF credentials = << >> THEN [err |-> "", cred |-> defaultCredential]
  ELSE IF matchZone(Head(credentials), hostname)
  THEN [err |-> "", cred |-> Head(credentials)]
  ELSE credentialForZone(Tail(credentials), defaultCredential, hostname)

\* a resolution that looks at the zones only
GetCredentialForZoneFirstMatchOnly(credentials, hostname, explicitCredName) ==
  credentialForZone(credentials, credentials[1], hostname)

\* CredentialManager.GetCredentialForZone; NewCredentialManager makes the
\* first credential of the list the default one
GetCredentialForZone(credentials, hostname, explicitCredName) ==
  IF explicitCredName # "" THEN credentialNamed(credentials, explicitCredName)
  ELSE credentialForZone(credentials, credentials[1], hostname)

\* the credential lists explored: with and without a root-level token, the
\* named credentials in either order (they are read from a map)
CredentialLists ==
  LET def == [name |-> "default", zones |-> << >>]
      c1 == [name |-> "c1", zones |-> << << "example", "com" >> >>]
      c2 == [name |-> "c2", zones |-> << << "b", "example", "com" >>, << "*", "a", "com", "" >> >>]
      c3 == [name |-> "c3", zones |-> << << "*", "example", "com" >> >>]
  IN  { << def >>, << def, c1, c2 >>, << def, c2, c1 >>, << c2, c1 >>, << c1, c2 >>,
        << def, c3 >>, << c3, c2 >>, << c2, c3, c1 >> }

\* Client.zoneCache: zone name -> zone id
ZoneCaches ==
  LET ZoneNames == { << "com" >>, << "example", "com" >>,
                     << "b", "example", "com" >>, << "a", "com" >> }
  IN  { [z \in S |-> << "id" >> \o z] : S \in SUBSET ZoneNames }

\* Client.matchZoneForHostname: walk up the labels of the hostname
RECURSIVE walkUp(_, _)
walkUp(zoneCache, candidate) ==
  IF candidate = << "" >> THEN [name |-> << >>, id |-> NoId]
  ELSE IF candidate \in DOMAIN zoneCache
  THEN [name |-> candidate, id |-> zoneCache[candidate]]
  ELSE IF Len(candidate) = 1 THEN [name |-> << >>, id |-> NoId]
  ELSE walkUp(zoneCache, Tail(candidate))

\* a walk that starts from the last label instead
matchZoneForHostnameShortest(zoneCache, hostname) ==
  LET h == trimDot(hostname)
      hits == { n \in 1..Len(h) : SubSeq(h, n, Len(h)) \in DOMAIN zoneCache }
      last == CHOOSE n \in hits : \A m \in hits : m <= n
  IN  IF hits = {} THEN [name |-> << >>, id |-> NoId]
      ELSE walkUp(zoneCache, SubSeq(h, last, Len(h)))

matchZoneForHostname(zoneCache, hostname) == walkUp(zoneCache, trimDot(hostname))

\* Client.GetZoneID once the zones are loaded
GetZoneID(zoneCache, hostname) ==
  LET m == matchZoneForHostname(zoneCache, hostname)
  IN  IF m.id = NoId
      THEN [err |-> "no matching zone found for hostname", name |-> << >>, id |-> NoId]
      ELSE [err |-> "", name |-> m.name, id |-> m.id]

\* ------------------------------------------------------------ client cache
\* NewCredentialManager: an empty cm.clients.  cm.built lists the credential
\* names NewClient was called for: a client is its position in that list.
\* cm.calls holds, per goroutine, the GetClient call it makes: where it is
\* ("idle", "unlocked" between RUnlock and Lock, "returned"), the credential,
\* what it returned and at which return statement ("fast" under the read
\* lock, "second" at the double-check, "new" after NewClient, "error").
\* clientsMu is held within a step only.
NoClients ==
  [clients |-> << >>, built |-> << >>,
   calls |-> [g \in {"g1", "g2", "g3"} |->
                [pc |-> "idle", cred |-> "", token |-> "", client |-> 0, err |-> "", at |-> ""]]]

NoLookup == [fn |-> "", hostname |-> << >>, name |-> "", config |-> << >>,
             out |-> [err |-> ""]]

\* ------------------------------------------------------------ agent server
\* the server before any agent has connected: server.conns lists the
\* AgentConnections made so far, each with the agent it authenticated as, where
\* its readPump is ("reading", "closed" once a newer connection closed it,
\* "gone" after handleDisconnect) and the last report it delivered;
\* server.registered is s.connections
NoServer == [conns |-> << >>, registered |-> << >>]

\* -------------------------------------------------------------- reconciler
VARIABLES
  containers,    \* r.containers: ids of the local containers known
  agentData,     \* r.agentData: agent id -> the snapshot it last reported
  agentTrigger,  \* r.agentTrigger: the number of signals the channel holds
  ledger,        \* the rows of the resources table
  dnsRemote,     \* the DNS records of the zone
  tunnelRemote,  \* tunnel id -> its ingress rules as last pushed
  apps,          \* the Access applications of the account
  now,           \* the clock
  orphanTTL,     \* sync.orphan_ttl
  aggregated,    \* what getDesiredState returned to the last pass
  desired,       \* the same after filterHostnameConflicts
  down,          \* the remote APIs that failed during the last pass
  listFail,      \* the kinds whose ledger listing failed during the last pass
  calls,         \* the remote mutating calls the last pass issued
  ran,           \* the steps of reconcile() the last pass went through
  errs,          \* the errors the last pass collected
  passes,        \* the number of passes of the loop goroutine so far
  faults,        \* how many of them met a failure
  pc,            \* the step the loop goroutine is at, "idle" between passes
  tpc,           \* the same for a goroutine that called TriggerReconcile
  tdesired,      \* the desired set of that goroutine's pass
  resolved,      \* the last credential or zone lookup: its input and its result
  server,        \* the agent server: its connections and s.connections
  running,       \* the containers the Docker host lists, known to the loop or not
  accessPolicies, \* the reusable Access policies of the account
  cm             \* the CredentialManager's client cache, its lock, the clients
                 \* constructed so far and the goroutines calling GetClient

vars == << containers, agentData, agentTrigger, ledger, dnsRemote, tunnelRemote, apps,
           now, orphanTTL, aggregated, desired, down, listFail, calls, ran, errs,
           passes, faults, pc, tpc, tdesired, resolved, server, running, accessPolicies,
           cm >>

\* getDesiredState: the local containers in map order, then each agent's
DesiredOrders(cs, ad) ==
  { [i \in 1..Len(p) |-> ParsedContainer(p[i])]
    \o Flatten([k \in 1..Len(q) |->
                  [m \in 1..Len(ad[q[k]]) |-> ParsedContainer(ad[q[k]][m])]])
    : p \in Perms(cs), q \in Perms(DOMAIN ad) }

dnsHostnamesOf(cs) ==
  UNION { { cs[i].dns[j].hostname : j \in 1..Len(cs[i].dns) } : i \in 1..Len(cs) }

tunnelHostnamesOf(cs) ==
  UNION { { cs[i].tunnels[j].hostname : j \in 1..Len(cs[i].tunnels) } : i \in 1..Len(cs) }

\* filterHostnameConflicts
filterKeepAll(cs) == cs

filterHostnameConflicts(cs) ==
  LET conflictedHostnames == dnsHostnamesOf(cs) \cap tunnelHostnamesOf(cs)
  IN  IF conflictedHostnames = {} THEN cs
      ELSE [i \in 1..Len(cs) |->
              [cs[i] EXCEPT !.tunnels =
                 SelectSeq(cs[i].tunnels, LAMBDA svc : svc.hostname \notin conflictedHostnames)]]

\* resolveAccessReferences: per container the tunnel services, then the DNS ones
accessCandidates(cs) ==
  Flatten([i \in 1..Len(cs) |->
     [j \in 1..Len(cs[i].tunnels) |-> [container |-> cs[i], service |-> cs[i].tunnels[j]]]
     \o [j \in 1..Len(cs[i].dns) |-> [container |-> cs[i], service |-> cs[i].dns[j]]]])

\* as resolveBindings, but a hostname counts as seen as soon as one of its
\* services carries a reference, defined or not
RECURSIVE resolveBindingsSeenFirst(_, _, _)
resolveBindingsSeenFirst(cands, globalPolicies, seenHostnames) ==
  IF cands = << >> THEN << >>
  ELSE LET e == Head(cands)
           svc == e.service
       IN  IF svc.access = "" \/ svc.hostname \in seenHostnames
           THEN resolveBindingsSeenFirst(Tail(cands), globalPolicies, seenHostnames)
           ELSE IF svc.access \notin DOMAIN globalPolicies
           THEN resolveBindingsSeenFirst(Tail(cands), globalPolicies,
                                         seenHostnames \cup {svc.hostname})
           ELSE << [hostname |-> svc.hostname, policy |-> globalPolicies[svc.access],
                    containerID |-> e.container.id, serviceName |-> svc.serviceName,
                    agentID |-> e.container.agentID, cleanup |-> svc.cleanup] >>
                \o resolveBindingsSeenFirst(Tail(cands), globalPolicies,
                                            seenHostnames \cup {svc.hostname})

RECURSIVE resolveBindings(_, _, _)
resolveBindings(cands, globalPolicies, seenHostnames) ==
  IF cands = << >> THEN << >>
  ELSE LET e == Head(cands)
           svc == e.service
       IN  IF svc.access = "" \/ svc.access \notin DOMAIN globalPolicies
              \/ svc.hostname \in seenHostnames
           THEN resolveBindings(Tail(cands), globalPolicies, seenHostnames)
           ELSE << [hostname |-> svc.hostname, policy |-> globalPolicies[svc.access],
                    containerID |-> e.container.id, serviceName |-> svc.serviceName,
                    agentID |-> e.container.agentID, cleanup |-> svc.cleanup] >>
                \o resolveBindings(Tail(cands), globalPolicies,
                                   seenHostnames \cup {svc.hostname})

\* the first pass registers the templates: a template is the definition of
\* a name by a container, and the first container of the list that defines a
\* name registers it
resolveAccessReferences(cs) ==
  LET globalPolicies ==
        [name \in UNION { cs[i].policies : i \in 1..Len(cs) } |->
           LET first == CHOOSE i \in 1..Len(cs) :
                          /\ name \in cs[i].policies
                          /\ \A j \in 1..(i - 1) : name \notin cs[j].policies
           IN  [name |-> name, definedBy |-> cs[first].id]]
  IN  resolveBindings(accessCandidates(cs), globalPolicies, {})

\* one iteration of the loop of processOrphanedCleanups
cleanupOne(w, r, t, dn) ==
  CASE r.kind = "dns"            -> DeleteDNSRecord(w, r, t, dn).w
    [] r.kind = "tunnel_ingress" -> RemoveIngressRule(w, r, t, dn).w
    [] r.kind = "access_app"     -> RemoveAccess(w, r, t, dn).w
    [] OTHER                     -> [w EXCEPT !.ledger = DeleteResource(w.ledger, r.id)]

RECURSIVE cleanupAll(_, _, _, _)
cleanupAll(w, rs, t, dn) ==
  IF rs = << >> THEN w
  ELSE cleanupAll(cleanupOne(w, Head(rs), t, dn), Tail(rs), t, dn)

processOrphanedCleanups(w, t, dn) ==
  cleanupAll(w, SeqOfSet(ListOrphanedForCleanup(w.ledger, t - RemoveDelay)), t, dn)

RECURSIVE deleteAll(_, _)
deleteAll(led, rs) ==
  IF rs = << >> THEN led ELSE deleteAll(DeleteResource(led, Head(rs).id), Tail(rs))

cleanupExpiredOrphansNoTTL(w, t, ttl) ==
  [w EXCEPT !.ledger = deleteAll(w.ledger, SeqOfSet(ListExpiredOrphans(w.ledger, t)))]

cleanupExpiredOrphans(w, t, ttl) ==
  [w EXCEPT !.ledger = deleteAll(w.ledger, SeqOfSet(ListExpiredOrphans(w.ledger, t - ttl)))]

\* the steps of reconcile(), in order
Steps == << "dns", "tunnel", "access", "cleanup" >>

\* reconcile() collects an operator's error and goes on
nextStepAbortOnError(step, err) ==
  IF err # "" THEN "idle"
  ELSE CASE step = "dns" -> "tunnel" [] step = "tunnel" -> "access"
         [] step = "access" -> "cleanup" [] OTHER -> "idle"

nextStep(step, err) ==
  CASE step = "dns" -> "tunnel" [] step = "tunnel" -> "access"
    [] step = "access" -> "cleanup" [] OTHER -> "idle"

\* what one step of reconcile() does to the world, and the error it collects
runStep(step, w, des, t, dn, lf, ttl) ==
  CASE step = "dns" ->
         IF "dns" \in lf THEN [w |-> w, err |-> "dns"]
         ELSE [w |-> DNSReconcile(w, des, t, dn), err |-> ""]
    [] step = "tunnel" ->
         IF "tunnel_ingress" \in lf THEN [w |-> w, err |-> "tunnel"]
         ELSE [w |-> TunnelReconcile(w, des, t, dn), err |-> ""]
    [] step = "access" ->
         IF "access_app" \in lf THEN [w |-> w, err |-> "access"]
         ELSE [w |-> ReconcileBindings(w, resolveAccessReferences(des), t, dn), err |-> ""]
    [] OTHER ->
         [w |-> IF ttl > 0
                THEN cleanupExpiredOrphans(processOrphanedCleanups(w, t, dn), t, ttl)
                ELSE processOrphanedCleanups(w, t, dn),
          err |-> ""]

\* reconcile(): the steps one after the other
RECURSIVE reconcileFrom(_, _, _, _, _, _, _, _, _)
afterStep(step, r, done, collected, des, t, dn, lf, ttl) ==
  reconcileFrom(nextStep(step, r.err), r.w, done \cup {step},
                IF r.err # "" THEN collected \cup {r.err} ELSE collected,
                des, t, dn, lf, ttl)

reconcileFrom(step, w, done, collected, des, t, dn, lf, ttl) ==
  IF step = "idle" THEN [w |-> w, ran |-> done, errs |-> collected]
  ELSE afterStep(step, runStep(step, w, des, t, dn, lf, ttl),
                 done, collected, des, t, dn, lf, ttl)

reconcile(w, des, t, dn, lf, ttl) == reconcileFrom("dns", w, {}, {}, des, t, dn, lf, ttl)

\* the failures a pass may meet: one remote API down, or one ledger listing
\* that fails
Faults == { [down |-> {}, listFail |-> {}] }
          \cup { [down |-> {a}, listFail |-> {}] : a \in APIs }
          \cup { [down |-> {}, listFail |-> {k}] : k \in Kinds }

Init ==
  /\ containers = {}
  /\ agentData = << >>
  /\ agentTrigger = 0
  /\ ledger = {}
  /\ dnsRemote = {}
  /\ tunnelRemote = [id \in {"t1"} |-> << >>]
  /\ apps = {ExtApp}
  /\ accessPolicies = {}
  /\ now = 0
  /\ orphanTTL \in OrphanTTLs
  /\ aggregated = << >>
  /\ desired = << >>
  /\ down = {}
  /\ listFail = {}
  /\ calls = {}
  /\ ran = {}
  /\ errs = {}
  /\ passes = 0
  /\ faults = 0
  /\ pc = "idle"
  /\ tpc = "idle"
  /\ tdesired = << >>
  /\ resolved = NoLookup
  /\ server = NoServer
  /\ running = {}
  /\ cm = NoClients

\* a pass of the loop goroutine, from getDesiredState to the end of reconcile()
Pass(cs, ad) ==
  /\ pc = "idle"
  /\ passes < MaxPasses
  /\ Cardinality(apps) < MaxApps
  /\ \E d \in DesiredOrders(cs, ad), f \in Faults :
       /\ (f.down # {} \/ f.listFail # {}) => faults < MaxFaults
       /\ \E des \in {filterHostnameConflicts(d)} :
          \E r \in {reconcile(World(ledger, dnsRemote, tunnelRemote, apps, accessPolicies, {}),
                             des, now, f.down, f.listFail, orphanTTL)} :
           /\ faults' = IF f.down # {} \/ f.listFail # {} THEN faults + 1 ELSE faults
           /\ aggregated' = d
           /\ desired' = des
           /\ down' = f.down
           /\ listFail' = f.listFail
           /\ ledger' = r.w.ledger
           /\ dnsRemote' = r.w.dns
           /\ tunnelRemote' = r.w.tunnels
           /\ apps' = r.w.apps
           /\ accessPolicies' = r.w.accessPolicies
           /\ calls' = r.w.calls
           /\ ran' = r.ran
           /\ errs' = r.errs
  /\ passes' = passes + 1
  /\ UNCHANGED << resolved, server, now, orphanTTL, pc, tpc, tdesired, cm >>

\* handleEvent, EventStart
EventStart(c) ==
  /\ c \notin running
  /\ c \notin containers
  /\ containers' = containers \cup {c}
  /\ running' = running \cup {c}
  /\ Pass(containers', agentData)
  /\ UNCHANGED << agentData, agentTrigger >>

\* handleEvent, EventStop and EventDie
EventStop(c) ==
  /\ c \in running
  /\ c \in containers
  /\ containers' = containers \ {c}
  /\ running' = running \ {c}
  /\ Pass(containers', agentData)
  /\ UNCHANGED << agentData, agentTrigger >>

\* syncContainers with a listing that succeeds: the map is rebuilt from the
\* listed containers whose labels parse to at least one service or policy
syncContainersMerged(known, listed) == known \cup (listed \ UnlabelledIds)

syncContainers(known, listed) == listed \ UnlabelledIds

\* the ticker case of Run: syncContainers, then reconcile
Tick ==
  /\ containers' = syncContainers(containers, running)
  /\ Pass(containers', agentData)
  /\ UNCHANGED << running, agentData, agentTrigger >>

\* the agentTrigger case of Run
AgentPass ==
  /\ agentTrigger > 0
  /\ agentTrigger' = agentTrigger - 1
  /\ Pass(containers, agentData)
  /\ UNCHANGED << running, containers, agentData >>

\* the send of UpdateAgentData on agentTrigger: select with a default case,
\* so a full channel drops the signal
sendQueued(n) == n + 1

sendDropped(n) == n

trySend(n) == IF n < TriggerDepth THEN n + 1 ELSE n

\* r.agentData[agentID] = containers
putAgentDataMerged(ad, a, snap) ==
  [x \in (DOMAIN ad) \cup {a} |->
     IF x # a THEN ad[x]
     ELSE IF a \in DOMAIN ad
          THEN ad[a] \o SelectSeq(snap, LAMBDA c : c \notin Range(ad[a]))
          ELSE snap]

putAgentData(ad, a, snap) ==
  [x \in (DOMAIN ad) \cup {a} |-> IF x = a THEN snap ELSE ad[x]]

\* UpdateAgentData, called from the agent server's goroutine
UpdateAgentData(a, snap) ==
  /\ passes < MaxPasses
  /\ agentData' = putAgentData(agentData, a, snap)
  /\ agentTrigger' = trySend(agentTrigger)
  /\ UNCHANGED << resolved, server, running, containers, ledger, dnsRemote, tunnelRemote, apps, accessPolicies, now, orphanTTL,
                  aggregated, desired, down, listFail, calls, ran, errs, passes, faults,
                  pc, tpc, tdesired, cm >>

\* RemoveAgentData, called from the agent server's goroutine
RemoveAgentData(a) ==
  /\ passes < MaxPasses
  /\ a \in DOMAIN agentData
  /\ agentData' = [x \in (DOMAIN agentData) \ {a} |-> agentData[x]]
  /\ UNCHANGED << resolved, server, running, containers, agentTrigger, ledger, dnsRemote, tunnelRemote, apps, accessPolicies, now,
                  orphanTTL, aggregated, desired, down, listFail, calls, ran, errs,
                  passes, faults, pc, tpc, tdesired, cm >>

\* time passes between passes
ClockAdvance ==
  /\ pc = "idle"
  /\ passes < MaxPasses
  /\ tpc = "idle"
  /\ now < MaxTime
  /\ now' = now + 1
  /\ UNCHANGED << resolved, server, running, containers, agentData, agentTrigger, ledger, dnsRemote, tunnelRemote,
                  apps, accessPolicies, orphanTTL, aggregated, desired, down, listFail, calls, ran, errs,
                  passes, faults, pc, tpc, tdesired, cm >>

Next ==
  \/ \E c \in LocalIds : EventStart(c)
  \/ \E c \in LocalIds : EventStop(c)
  \/ Tick
  \/ AgentPass
  \/ \E a \in AgentIds, snap \in AgentSnapshots : UpdateAgentData(a, snap)
  \/ \E a \in AgentIds : RemoveAgentData(a)
  \/ ClockAdvance

Spec == Init /\ [][Next]_vars

\* ------------------------------------------- TriggerReconcile from outside
\* The same reconciler with reconcile() taken step by step, and a second
\* goroutine that calls the exported TriggerReconcile.

\* the loop goroutine enters reconcile()
BeginSteps(cs) ==
  /\ pc = "idle"
  /\ passes < MaxPasses
  /\ Cardinality(apps) < MaxApps
  /\ \E d \in DesiredOrders(cs, agentData) :
       /\ aggregated' = d
       /\ desired' = filterHostnameConflicts(d)
  /\ pc' = "dns"
  /\ down' = {}
  /\ listFail' = {}
  /\ calls' = {}
  /\ ran' = {}
  /\ errs' = {}
  /\ passes' = passes + 1
  /\ UNCHANGED << resolved, server, agentData, agentTrigger, ledger, dnsRemote, tunnelRemote, apps, accessPolicies, now,
                  orphanTTL, faults, tpc, tdesired, cm >>

\* handleEvent, EventStart, up to the call of reconcile()
StartSteps(c) ==
  /\ c \notin containers
  /\ containers' = containers \cup {c}
  /\ running' = running \cup {c}
  /\ BeginSteps(containers')

\* the ticker case of Run, up to the call of reconcile()
TickSteps ==
  /\ BeginSteps(containers)
  /\ UNCHANGED << containers, running >>

\* one step of reconcile() on the goroutine whose position is `at` and whose
\* desired set is `des`
StepOf(at, des) ==
  \E r \in {runStep(at, World(ledger, dnsRemote, tunnelRemote, apps, accessPolicies, calls), des, now, down, listFail, orphanTTL)} :
     /\ ledger' = r.w.ledger
     /\ dnsRemote' = r.w.dns
     /\ tunnelRemote' = r.w.tunnels
     /\ apps' = r.w.apps
     /\ accessPolicies' = r.w.accessPolicies
     /\ calls' = r.w.calls

\* the loop goroutine takes its next step
LoopStep ==
  /\ pc # "idle"
  /\ StepOf(pc, desired)
  /\ pc' = nextStep(pc, "")
  /\ ran' = ran \cup {pc}
  /\ UNCHANGED << resolved, server, running, containers, agentData, agentTrigger, now, orphanTTL, aggregated,
                  desired, down, listFail, errs, passes, faults, tpc, tdesired, cm >>

\* TriggerReconcile: another goroutine enters reconcile(); nothing makes it
\* wait for the loop goroutine
TriggerReconcile ==
  /\ tpc = "idle"
  /\ Cardinality(apps) < MaxApps
  /\ \E d \in DesiredOrders(containers, agentData) :
       tdesired' = filterHostnameConflicts(d)
  /\ tpc' = "dns"
  /\ UNCHANGED << resolved, server, running, containers, agentData, agentTrigger, ledger, dnsRemote, tunnelRemote,
                  apps, accessPolicies, now, orphanTTL, aggregated, desired, down, listFail, calls, ran,
                  errs, passes, faults, pc, cm >>

\* that goroutine takes its next step
TriggerStep ==
  /\ tpc # "idle"
  /\ StepOf(tpc, tdesired)
  /\ tpc' = nextStep(tpc, "")
  /\ UNCHANGED << resolved, server, running, containers, agentData, agentTrigger, now, orphanTTL, aggregated,
                  desired, down, listFail, ran, errs, passes, faults, pc, tdesired, cm >>

NextTrigger ==
  \/ \E c \in LocalIds : StartSteps(c)
  \/ TickSteps
  \/ LoopStep
  \/ TriggerReconcile
  \/ TriggerStep

SpecTrigger == Init /\ [][NextTrigger]_vars

\* ------------------------------------------------------------- lookups
\* The two lookups on their own: one call per behaviour, of any hostname
\* against any of the credential lists and zone caches above.
LookupCredential ==
  /\ resolved = NoLookup
  /\ \E creds \in CredentialLists, h \in Hostnames, n \in {"", "default", "c1", "c2", "c4"} :
     resolved' = [fn |-> "GetCredentialForZone", hostname |-> h, name |-> n,
                  config |-> creds, out |-> GetCredentialForZone(creds, h, n)]

LookupZone ==
  /\ resolved = NoLookup
  /\ \E cache \in ZoneCaches, h \in Hostnames :
     resolved' = [fn |-> "GetZoneID", hostname |-> h, name |-> "",
                  config |-> cache, out |-> GetZoneID(cache, h)]

\* resolveAccessReferences on its own: one call per behaviour, on any list
\* of at most three distinct containers out of those that define or reference
\* a template
ResolveReferences ==
  /\ resolved = NoLookup
  /\ \E S \in SUBSET {"c2", "c3", "c4", "c11", "c12"} :
       /\ Cardinality(S) \in 1..3
       /\ \E p \in Perms(S) :
            LET cs == [i \in 1..Len(p) |-> ParsedContainer(p[i])]
            IN  resolved' = [fn |-> "resolveAccessReferences", hostname |-> << >>,
                             name |-> "", config |-> cs,
                             out |-> resolveAccessReferences(cs)]

\* the credentials one naming service is served with: parseDNSService starts
\* from DefaultDNSService, whose Credential is "default", and overwrites it
\* with the credential label when there is one (label "" stands for no
\* label); CreateDNSRecord and UpdateDNSRecord resolve with the service's
\* Credential, DeleteDNSRecord with no name
RouteDNSService ==
  /\ resolved = NoLookup
  /\ \E creds \in CredentialLists, h \in Hostnames, label \in {"", "c1"} :
       LET Credential == IF label = "" THEN "default" ELSE label
       IN  resolved' = [fn |-> "DNSService", hostname |-> h, name |-> label,
                        config |-> creds,
                        out |-> [err |-> "",
                                 create |-> GetCredentialForZone(creds, h, Credential),
                                 update |-> GetCredentialForZone(creds, h, Credential),
                                 delete |-> GetCredentialForZone(creds, h, "")]]

NextLookup ==
  \/ /\ RouteDNSService
     /\ UNCHANGED << server, running, containers, agentData, agentTrigger, ledger, dnsRemote,
                     tunnelRemote, apps, accessPolicies, now, orphanTTL, aggregated, desired, down,
                     listFail, calls, ran, errs, passes, faults, pc, tpc, tdesired, cm >>
  \/ /\ ResolveReferences
     /\ UNCHANGED << server, running, containers, agentData, agentTrigger, ledger, dnsRemote,
                     tunnelRemote, apps, accessPolicies, now, orphanTTL, aggregated, desired, down,
                     listFail, calls, ran, errs, passes, faults, pc, tpc, tdesired, cm >>
  \/ /\ LookupCredential
     /\ UNCHANGED << server, running, containers, agentData, agentTrigger, ledger, dnsRemote,
                     tunnelRemote, apps, accessPolicies, now, orphanTTL, aggregated, desired, down,
                     listFail, calls, ran, errs, passes, faults, pc, tpc, tdesired, cm >>
  \/ /\ LookupZone
     /\ UNCHANGED << server, running, containers, agentData, agentTrigger, ledger, dnsRemote,
                     tunnelRemote, apps, accessPolicies, now, orphanTTL, aggregated, desired, down,
                     listFail, calls, ran, errs, passes, faults, pc, tpc, tdesired, cm >>

SpecLookup == Init /\ [][NextLookup]_vars

\* ---------------------------------------------------------- GetClient
\* Goroutines calling GetClient at the same time, each once, for one of the
\* credentials default, c1 and c4; c4 is configured without an API token.
\* From RLock to RUnlock: the read of the cache under the read lock
GetClientFastPath(g) ==
  /\ cm.calls[g].pc = "idle"
  /\ \E name \in {"default", "c1", "c4"} :
       LET cred == [cred |-> name, token |-> IF name = "c4" THEN "" ELSE "tok"]
       IN  IF name \in DOMAIN cm.clients
           THEN cm' = [cm EXCEPT !.calls[g] =
                         [pc |-> "returned", cred |-> cred.cred, token |-> cred.token,
                          client |-> cm.clients[name], err |-> "", at |-> "fast"]]
           ELSE cm' = [cm EXCEPT !.calls[g] =
                         [pc |-> "unlocked", cred |-> cred.cred, token |-> cred.token,
                          client |-> 0, err |-> "", at |-> ""]]

\* a slow path that constructs without looking at the cache again
GetClientSlowPathNoDoubleCheck(g) ==
  /\ cm.calls[g].pc = "unlocked"
  /\ LET c == cm.calls[g]
     IN  IF c.token = ""
         THEN cm' = [cm EXCEPT !.calls[g].pc = "returned",
                               !.calls[g].at = "error",
                               !.calls[g].err = "missing API token"]
         ELSE LET built == Append(cm.built, c.cred)
              IN  cm' = [cm EXCEPT !.built = built,
                                   !.clients = (c.cred :> Len(built)) @@ cm.clients,
                                   !.calls[g].pc = "returned",
                                   !.calls[g].at = "new",
                                   !.calls[g].client = Len(built)]

\* From Lock to the deferred Unlock: the second look at the cache, the token
\* check, NewClient and the store
GetClientSlowPath(g) ==
  /\ cm.calls[g].pc = "unlocked"
  /\ LET c == cm.calls[g]
     IN  IF c.cred \in DOMAIN cm.clients
         THEN cm' = [cm EXCEPT !.calls[g].pc = "returned",
                               !.calls[g].at = "second",
                               !.calls[g].client = cm.clients[c.cred]]
         ELSE IF c.token = ""
         THEN cm' = [cm EXCEPT !.calls[g].pc = "returned",
                               !.calls[g].at = "error",
                               !.calls[g].err = "missing API token"]
         ELSE LET built == Append(cm.built, c.cred)
              IN  cm' = [cm EXCEPT !.built = built,
                                   !.clients = (c.cred :> Len(built)) @@ cm.clients,
                                   !.calls[g].pc = "returned",
                                   !.calls[g].at = "new",
                                   !.calls[g].client = Len(built)]

NextClients ==
  \/ /\ \E g \in DOMAIN cm.calls : GetClientFastPath(g)
     /\ UNCHANGED << containers, agentData, agentTrigger, ledger, dnsRemote, tunnelRemote,
                     apps, now, orphanTTL, aggregated, desired, down, listFail, calls, ran,
                     errs, passes, faults, pc, tpc, tdesired, resolved, server, running,
                     accessPolicies >>
  \/ /\ \E g \in DOMAIN cm.calls : GetClientSlowPath(g)
     /\ UNCHANGED << containers, agentData, agentTrigger, ledger, dnsRemote, tunnelRemote,
                     apps, now, orphanTTL, aggregated, desired, down, listFail, calls, ran,
                     errs, passes, faults, pc, tpc, tdesired, resolved, server, running,
                     accessPolicies >>

SpecClients == Init /\ [][NextClients]_vars

\* ------------------------------------------------------- several agents
\* The reconciler of a host that runs no container of its own and is fed by
\* two agents: a1 reports c4 or nothing, a2 reports c5 or nothing.
SnapshotsOf(a) == IF a = "a1" THEN AgentSnapshots ELSE { << >>, << "c5" >> }

NextAgents ==
  \/ \E a \in {"a1", "a2"} : \E snap \in SnapshotsOf(a) : UpdateAgentData(a, snap)
  \/ \E a \in {"a1", "a2"} : RemoveAgentData(a)
  \/ AgentPass
  \/ Tick

SpecAgents == Init /\ [][NextAgents]_vars

\* the agentTrigger case of Run as the other goroutines see it: a signal is
\* received and a pass runs (the steps of NextAgents that do both are the
\* AgentPass steps, and one is possible whenever this is)
agentTriggerReceived ==
  /\ agentTrigger > 0
  /\ pc = "idle" /\ passes < MaxPasses /\ Cardinality(apps) < MaxApps
  /\ agentTrigger' = agentTrigger - 1
  /\ passes' = passes + 1

\* the loop keeps running: the select of Run does not leave a signal on
\* agentTrigger unreceived for ever
SpecAgentsFair == SpecAgents /\ WF_<< agentTrigger, passes >>(agentTriggerReceived)

\* ------------------------------------------------- agents that reconnect
\* The agent server in front of the reconciler: agents a1 and a2 connect,
\* report, lose their connection and connect again.  A connection is the
\* index of its AgentConnection in server.conns.

\* handleWebSocket once the auth message is accepted: a connection registered
\* for the agent is closed and replaced
handleWebSocket(a) ==
  /\ Len(server.conns) < MaxConns
  /\ server' =
       [conns |->
          Append([i \in 1..Len(server.conns) |->
                    IF a \in DOMAIN server.registered /\ server.registered[a] = i
                    THEN [server.conns[i] EXCEPT !.st = "closed"]
                    ELSE server.conns[i]],
                 [agent |-> a, st |-> "reading", reported |-> FALSE, last |-> << >>]),
        registered |->
          [x \in (DOMAIN server.registered) \cup {a} |->
             IF x = a THEN Len(server.conns) + 1 ELSE server.registered[x]]]
  /\ UNCHANGED << agentData, agentTrigger >>
  /\ UNCHANGED << resolved, running, containers, ledger, dnsRemote, tunnelRemote,
                  apps, accessPolicies, now, orphanTTL, aggregated, desired, down, listFail, calls, ran,
                  errs, passes, faults, pc, tpc, tdesired, cm >>

\* readPump got a report on connection c: handleReport
handleReport(c, snap) ==
  /\ c \in 1..Len(server.conns)
  /\ server.conns[c].st = "reading"
  /\ snap \in SnapshotsOf(server.conns[c].agent)
  /\ agentData' = putAgentData(agentData, server.conns[c].agent, snap)
  /\ agentTrigger' = trySend(agentTrigger)
  /\ server' = [server EXCEPT !.conns[c].reported = TRUE, !.conns[c].last = snap]
  /\ UNCHANGED << resolved, running, containers, ledger, dnsRemote, tunnelRemote,
                  apps, accessPolicies, now, orphanTTL, aggregated, desired, down, listFail, calls, ran,
                  errs, passes, faults, pc, tpc, tdesired, cm >>

\* readPump of connection c returned on a read error (the agent went away, or
\* a newer connection closed this one): handleDisconnect
handleDisconnect(c) ==
  /\ c \in 1..Len(server.conns)
  /\ server.conns[c].st \in {"reading", "closed"}
  /\ server' =
       [conns |-> [server.conns EXCEPT ![c].st = "gone"],
        registered |->
          [x \in { y \in DOMAIN server.registered :
                     ~(y = server.conns[c].agent /\ server.registered[y] = c) } |->
             server.registered[x]]]
  /\ agentData' = [x \in (DOMAIN agentData) \ {server.conns[c].agent} |-> agentData[x]]
  /\ UNCHANGED agentTrigger
  /\ UNCHANGED << resolved, running, containers, ledger, dnsRemote, tunnelRemote,
                  apps, accessPolicies, now, orphanTTL, aggregated, desired, down, listFail, calls, ran,
                  errs, passes, faults, pc, tpc, tdesired, cm >>

NextReconnect ==
  \/ \E a \in {"a1", "a2"} : handleWebSocket(a)
  \/ \E c \in 1..MaxConns : \E snap \in {<< >>, << "c4" >>, << "c5" >>} :
       handleReport(c, snap)
  \/ \E c \in 1..MaxConns : handleDisconnect(c)

SpecReconnect == Init /\ [][NextReconnect]_vars

\* ------------------------------------------- resources removed by hand
\* The same reconciler over an account in which somebody else deletes the
\* resource of an orphaned row that is waiting for its cleanup: the remote
\* delete of that resource is then answered not-found
\* (DeleteRecord, part_007; DeleteAccessApplication; TunnelClient.RemoveIngressRule).
ExternalDelete ==
  /\ pc = "idle"
  /\ passes < MaxPasses
  /\ \E r \in ledger :
       /\ r.status = StatusOrphaned /\ r.cleanup
       /\ \/ /\ r.kind = "dns"
             /\ \E x \in dnsRemote : RecID(x.name, x.type) = r.cfid
             /\ dnsRemote' = { x \in dnsRemote : RecID(x.name, x.type) # r.cfid }
             /\ UNCHANGED << tunnelRemote, apps, accessPolicies >>
          \/ /\ r.kind = "tunnel_ingress"
             /\ \E x \in Range(tunnelRemote[r.tunnelID]) : x.hostname = r.hostname
             /\ tunnelRemote' =
                  [tunnelRemote EXCEPT ![r.tunnelID] =
                     SelectSeq(@, LAMBDA rule : rule.hostname # r.hostname)]
             /\ UNCHANGED << dnsRemote, apps, accessPolicies >>
          \/ /\ r.kind = "access_app"
             /\ \E x \in apps : x.id = r.accessAppID
             /\ apps' = { x \in apps : x.id # r.accessAppID }
             /\ UNCHANGED << dnsRemote, tunnelRemote, accessPolicies >>
  /\ UNCHANGED << resolved, server, running, containers, agentData, agentTrigger, ledger, now, orphanTTL,
                  aggregated, desired, down, listFail, calls, ran, errs, passes,
                  faults, pc, tpc, tdesired, cm >>

\* one local container (c2: tunnel rule and application) and the agent's c4
\* (DNS records) give a row of every kind
NextExternal ==
  \/ EventStart("c2")
  \/ EventStop("c2")
  \/ \E snap \in AgentSnapshots \cup { << "c10" >> } : UpdateAgentData("a1", snap)
  \/ AgentPass
  \/ ClockAdvance
  \/ ExternalDelete

SpecExternal == Init /\ [][NextExternal]_vars

\* ------------------------------------------------- events that do not arrive
\* The Docker host against the loop's map: containers start and stop while
\* the event stream is down, a container without labels of this system (c9)
\* runs next to the labelled ones, and a destroy event arrives for a container
\* whose die event was lost.

\* a container starts or stops and the loop's map is not changed: the event
\* is lost, or it is the start of a container for which parseContainer
\* returns nil
unseenChange(c) ==
  /\ passes < MaxPasses
  /\ running' = IF c \in running THEN running \ {c} ELSE running \cup {c}
  /\ UNCHANGED << resolved, server, containers, agentData, agentTrigger, ledger, dnsRemote,
                  tunnelRemote, apps, accessPolicies, now, orphanTTL, aggregated, desired, down, listFail,
                  calls, ran, errs, passes, faults, pc, tpc, tdesired, cm >>

\* handleEvent, EventDestroy: the entry is deleted and the handler returns
EventDestroy(c) ==
  /\ passes < MaxPasses
  /\ c \notin running
  /\ c \in containers
  /\ containers' = containers \ {c}
  /\ UNCHANGED << resolved, server, running, agentData, agentTrigger, ledger, dnsRemote,
                  tunnelRemote, apps, accessPolicies, now, orphanTTL, aggregated, desired, down, listFail,
                  calls, ran, errs, passes, faults, pc, tpc, tdesired, cm >>

NextHost ==
  \/ \E c \in LocalIds : EventStart(c)
  \/ \E c \in LocalIds : EventStop(c)
  \/ \E c \in LocalIds \cup UnlabelledIds : unseenChange(c)
  \/ \E c \in LocalIds : EventDestroy(c)
  \/ Tick
  \/ UpdateAgentData("a1", << "c4" >>)
  \/ AgentPass

SpecHost == Init /\ [][NextHost]_vars

\* ------------------------------------------------ tunnel services that meet
\* Three local containers with tunnel services: c3 and c6 declare the same
\* hostname and path, c7 names the gateway by its id while c3 and c6 leave the
\* name empty; GetTunnelClient resolves both names to the one gateway.  c8
\* declares one hostname under two paths.
NextTunnels ==
  \/ \E c \in {"c3", "c6", "c7", "c8"} : EventStart(c)
  \/ \E c \in {"c3", "c6", "c7", "c8"} : EventStop(c)
  \/ Tick

SpecTunnels == Init /\ [][NextTunnels]_vars

\* ------------------------------------------------------------- properties
\* the ledger keys the operators are asked to keep, given the filtered set
DesiredKeys(des) ==
  { << "dns", e.service.hostname, e.service.type >> : e \in Range(dnsEntries(des)) }
  \cup { << "tunnel_ingress", e.service.hostname, "" >> : e \in Range(tunnelEntries(des)) }
  \cup { << "access_app", b.hostname, "" >> : b \in Range(resolveAccessReferences(des)) }

IsDesired(r, des) == UniqueKey(r) \in DesiredKeys(des)

\* what the account holds for a ledger row: the DNS record of its name and
\* type, the rules of its hostname in its tunnel, the applications this
\* system created for its hostname
RemoteOf(r, d, tn, ap) ==
  CASE r.kind = "dns" ->
         { x \in d : x.name = r.hostname /\ x.type = r.recordType }
    [] r.kind = "tunnel_ingress" ->
         { x \in Range(tn[TunnelIDOf(DefaultTunnel)]) : x.hostname = r.hostname }
    [] OTHER ->
         { a \in ap : a.domain = r.hostname /\ a # ExtApp }

IsPass == passes' = passes + 1

Healthy(dn, lf) == dn = {} /\ lf = {}

\* C1: a pass that follows a pass without failure, with the same aggregated
\* desired set and nothing due for cleanup, issues no remote mutating call
\* and leaves the ledger as it found it.
C1_SecondPassIsNoOp ==
  [][ ( /\ IsPass
        /\ passes > 0
        /\ Healthy(down, listFail) /\ Healthy(down', listFail')
        /\ aggregated' = aggregated
        /\ ListOrphanedForCleanup(ledger, now - RemoveDelay) = {}
        /\ ListExpiredOrphans(ledger, now - orphanTTL) = {} )
      => (calls' = {} /\ ledger' = ledger) ]_vars

\* C2: once the create for a hostname has been refused because of an
\* application made by hand, a pass that still wants the hostname while that
\* application exists issues no access call for it and leaves the row in error.
C2_RefusalIsSticky ==
  [][ \A r \in ledger :
        ( /\ IsPass
          /\ r.kind = "access_app"
          /\ r.status = StatusError /\ r.lastError = ErrConflict
          /\ IsDesired(r, desired')
          /\ \E a \in apps : a = ExtApp /\ a.domain = r.hostname )
        => /\ \A c \in calls' : ~(c.api = "access" /\ c.key = r.hostname)
           /\ \E x \in ledger' : UniqueKey(x) = UniqueKey(r) /\ x.status = StatusError ]_vars

\* C3: a row left in error by a failed remote create is active after the next
\* pass that wants it and meets no failure.
C3_RetryReachesActive ==
  [][ \A r \in ledger :
        ( /\ IsPass
          /\ Healthy(down', listFail')
          /\ r.status = StatusError /\ r.lastError = ErrAPI
          /\ aggregated' = aggregated
          /\ IsDesired(r, desired') )
        => \E x \in ledger' : UniqueKey(x) = UniqueKey(r) /\ x.status = StatusActive ]_vars

\* C4: a pass leaves alone the remote resource of every row with cleanup
\* disabled that is orphaned when the pass ends or was orphaned when it began
\* (whether the row survives the pass or is purged by it).
C4_KeptOrphanUntouched ==
  [][ \A r \in ledger \cup ledger' :
        ( /\ IsPass
          /\ ~r.cleanup
          /\ r.status = StatusOrphaned
          /\ ~IsDesired(r, desired') )
        => RemoteOf(r, dnsRemote', tunnelRemote', apps')
             = RemoteOf(r, dnsRemote, tunnelRemote, apps) ]_vars

\* C5: a hostname declared by a DNS entry and by a tunnel entry of the
\* aggregated set reaches the DNS operator and not the tunnel operator.
C5_DNSWinsOverTunnel ==
  \A h \in dnsHostnamesOf(aggregated) \cap tunnelHostnamesOf(aggregated) :
     /\ h \notin tunnelHostnamesOf(desired)
     /\ h \in dnsHostnamesOf(desired)

\* a pass over the agent's container, which declares h1 both ways, and a local
\* container that declares h1 as a tunnel entry: the DNS rows are made, the
\* tunnel row made earlier is no longer kept
C5_Witness ==
  /\ passes > 0
  /\ Healthy(down, listFail)
  /\ \E i, j \in 1..Len(aggregated) :
       /\ aggregated[i].agentID = "" /\ aggregated[j].agentID # ""
       /\ \E k \in 1..Len(aggregated[i].tunnels) : aggregated[i].tunnels[k].hostname = "h1"
       /\ \E k \in 1..Len(aggregated[j].tunnels) : aggregated[j].tunnels[k].hostname = "h1"
       /\ \E k \in 1..Len(aggregated[j].dns) : aggregated[j].dns[k].hostname = "h1"
  /\ \E r \in ledger : r.kind = "dns" /\ r.hostname = "h1" /\ r.status = StatusActive
  /\ \E r \in ledger : r.kind = "tunnel_ingress" /\ r.hostname = "h1"
                       /\ r.status = StatusOrphaned

\* C6: the ledger never holds two rows with the same kind, hostname and
\* record type.
C6_OneRowPerKey ==
  \A x, y \in ledger : UniqueKey(x) = UniqueKey(y) => x = y

\* two DNS rows of one hostname that differ in record type, each saved twice
\* (by CreateDNSRecord, then again with the agent id), next to a tunnel row of
\* the same hostname that has been saved again at a later time
C6_Witness ==
  /\ \E x, y \in ledger : /\ x.kind = "dns" /\ y.kind = "dns"
                          /\ x.hostname = y.hostname /\ x.recordType # y.recordType
                          /\ x.agentID = "a1" /\ y.agentID = "a1"
                          /\ x.cfid # NoId /\ y.cfid # NoId
  /\ \E x, y \in ledger : /\ x.kind = "dns" /\ y.kind = "tunnel_ingress"
                          /\ x.hostname = y.hostname
                          /\ y.updatedAt > 0

\* C7: the loop goroutine and a caller of TriggerReconcile are never inside
\* reconcile() at the same time.
C7_NoOverlap == ~(pc # "idle" /\ tpc # "idle")

\* C8: every pass goes through the DNS, tunnel and access steps and the
\* cleanup, whatever failed on the way.
C8_AllStepsRun ==
  passes > 0 => ran = Range(Steps)

\* a pass whose DNS listing failed and that still pushed the tunnel rules and
\* created an application
C8_Witness ==
  /\ listFail = {"dns"}
  /\ "dns" \in errs
  /\ ran = Range(Steps)
  /\ \E c \in calls : c.api = "tunnel"
  /\ \E c \in calls : c.api = "access"

\* C9: a pass that meets no remote failure removes, from the ledger and from
\* the account, every orphaned row with cleanup enabled whose remove delay
\* has elapsed and that is still not desired.
C9_DueOrphanRemoved ==
  [][ \A r \in ledger :
        ( /\ IsPass
          /\ down' = {}
          /\ r.status = StatusOrphaned /\ r.cleanup
          /\ r.updatedAt < now - RemoveDelay
          /\ ~IsDesired(r, desired') )
        => /\ \A x \in ledger' : UniqueKey(x) # UniqueKey(r)
           /\ RemoteOf(r, dnsRemote', tunnelRemote', apps') = {} ]_vars

\* C10: a pass does not remove the remote resource of a row with cleanup
\* enabled that is orphaned when the pass ends and whose remove delay has
\* not elapsed.
C10_NoEarlyRemoval ==
  [][ \A r \in ledger' :
        ( /\ IsPass
          /\ r.status = StatusOrphaned /\ r.cleanup
          /\ now' - r.updatedAt < RemoveDelay
          /\ RemoteOf(r, dnsRemote, tunnelRemote, apps) # {} )
        => RemoteOf(r, dnsRemote', tunnelRemote', apps') # {} ]_vars

\* C11: whatever the cutoffs, an orphaned row is picked by at most one of the
\* two expiry queries of a pass: a row with cleanup enabled only by the
\* remove-delay query, a row with cleanup disabled only by the orphan-TTL
\* query.
C11_OnePathPerOrphan ==
  \A t \in 0..(MaxTime + 1) : \A r \in ledger :
     LET byDelay == ListOrphanedForCleanup(ledger, t - RemoveDelay)
         byTTL == ListExpiredOrphans(ledger, t - orphanTTL)
     IN  /\ r \in byDelay => (r.cleanup /\ r \notin byTTL)
         /\ r \in byTTL => (~r.cleanup /\ r \notin byDelay)

\* a pass in which both paths acted: the AAAA record (cleanup enabled) was
\* deleted remotely, the row of the A record (cleanup disabled) was purged
\* from the ledger and its record is still in the zone
C11_Witness ==
  /\ orphanTTL > 0
  /\ \E c \in calls : c.api = "dns" /\ c.op = "delete" /\ c.key = RecID("h1", "AAAA")
  /\ \E x \in dnsRemote : x.name = "h1" /\ x.type = "A"
  /\ ~(\E x \in dnsRemote : x.name = "h1" /\ x.type = "AAAA")
  /\ ~(\E r \in ledger : r.kind = "dns")

\* C12: in a pass that reaches the Access API, a desired binding whose
\* hostname has no ledger row while the account holds an application bound to
\* it gets no remote create, and an error row whose message names one of
\* those applications.
C12_ConflictRefused ==
  [][ \A b \in Range(resolveAccessReferences(desired')) :
        ( /\ IsPass
          /\ "access" \notin down' /\ "access_app" \notin listFail'
          /\ ~(\E r \in ledger : r.kind = "access_app" /\ r.hostname = b.hostname)
          /\ \E a \in apps : a.domain = b.hostname )
        => /\ \A c \in calls' : ~(c.api = "access" /\ c.key = b.hostname)
           /\ \E x \in ledger' :
                /\ x.kind = "access_app" /\ x.hostname = b.hostname
                /\ x.status = StatusError
                /\ \E a \in apps : a.domain = b.hostname /\ x.lastError = conflictError(a.id) ]_vars

\* the pass that first wants h2, bound to the application made by hand: the
\* row is in error, names that application, and no access call was made for h2
C12_Witness ==
  /\ passes > 0 /\ Healthy(down, listFail)
  /\ \E b \in Range(resolveAccessReferences(desired)) : b.hostname = "h2"
  /\ ExtApp \in apps
  /\ \A c \in calls : ~(c.api = "access" /\ c.key = "h2")
  /\ \E x \in ledger : /\ x.kind = "access_app" /\ x.hostname = "h2"
                        /\ x.status = StatusError
                        /\ x.lastError = conflictError(ExtApp.id)
                        /\ x.accessAppID = NoId

\* C13: in a pass that finds the API of a kind failing, every desired key of
\* that kind without a ledger row ends the pass with exactly one row, in
\* error, carrying the failure message; and a pass that finds a key's row in
\* error leaves at most one row for the key.
C13_FailedCreateLeavesOneErrorRow ==
  [][ IsPass =>
        \A k \in DesiredKeys(desired') :
          LET api == CASE k[1] = "dns" -> "dns" [] k[1] = "tunnel_ingress" -> "tunnel"
                       [] OTHER -> "access"
              before == { r \in ledger : UniqueKey(r) = k }
              after == { x \in ledger' : UniqueKey(x) = k }
          IN  /\ (api \in down' /\ before = {})
                 => /\ Cardinality(after) = 1
                    /\ \A x \in after : x.status = StatusError /\ x.lastError = ErrAPI
              /\ (\E r \in before : r.status = StatusError) => Cardinality(after) <= 1 ]_vars

\* after a failed DNS create and the pass that followed it without failure:
\* the key is still wanted and still has its one error row, without a record id
C13_Witness ==
  /\ passes >= 2 /\ faults = 1 /\ Healthy(down, listFail)
  /\ \E x \in ledger :
       /\ x.kind = "dns" /\ x.status = StatusError /\ x.cfid = NoId
       /\ IsDesired(x, desired)
       /\ Cardinality({ y \in ledger : UniqueKey(y) = UniqueKey(x) }) = 1

\* C14: a pass that meets no remote failure hard-deletes every orphaned row
\* with cleanup enabled, past its remove delay and not desired, whose remote
\* resource is already gone from the account.
C14_NotFoundIsSuccess ==
  [][ \A r \in ledger :
        ( /\ IsPass
          /\ Healthy(down', listFail')
          /\ r.status = StatusOrphaned /\ r.cleanup
          /\ r.updatedAt < now - RemoveDelay
          /\ ~IsDesired(r, desired')
          /\ CASE r.kind = "dns" ->
                    /\ r.cfid # NoId
                    /\ ~(\E x \in dnsRemote : RecID(x.name, x.type) = r.cfid)
               [] r.kind = "tunnel_ingress" ->
                    ~(\E x \in Range(tunnelRemote[r.tunnelID]) : x.hostname = r.hostname)
               [] OTHER ->
                    /\ r.accessAppID # NoId
                    /\ ~(\E a \in apps : a.id = r.accessAppID) )
        => ~(\E x \in ledger' : x.id = r.id) ]_vars

\* C15: the trigger channel never holds more than one signal; a signal is
\* added only to an empty channel (an update that finds one pending adds
\* none) and is taken only by a pass; and an update is never made to wait.
C15_OneTriggerPending ==
  /\ [](passes < MaxPasses =>
          \A a \in {"a1", "a2"} : \A snap \in SnapshotsOf(a) :
             ENABLED UpdateAgentData(a, snap))
  /\ [][ /\ agentTrigger' <= 1
         /\ (agentTrigger' > agentTrigger => agentTrigger = 0)
         /\ (agentTrigger' < agentTrigger => IsPass) ]_vars

\* both agents have reported, no pass has run in between, and one signal is
\* pending
C15_Witness ==
  /\ passes = 0
  /\ DOMAIN agentData = {"a1", "a2"}
  /\ agentData["a1"] # << >> /\ agentData["a2"] # << >>
  /\ agentTrigger = 1

\* C16: whatever an agent reports next, the map then holds exactly that
\* snapshot for the agent and what it held for every other agent, and
\* getDesiredState returns the local containers, that snapshot's containers
\* for the agent and no other container of it.
C16_SnapshotReplaced ==
  \A a \in {"a1", "a2"} : \A S \in SnapshotsOf(a) :
     LET ad2 == putAgentData(agentData, a, S)
     IN  /\ DOMAIN ad2 = (DOMAIN agentData) \cup {a}
         /\ ad2[a] = S
         /\ \A b \in (DOMAIN agentData) \ {a} : ad2[b] = agentData[b]
         /\ \A d \in DesiredOrders(containers, ad2) :
              /\ { d[i].id : i \in { j \in 1..Len(d) : d[j].agentID = a } } = Range(S)
              /\ { d[i].id : i \in { j \in 1..Len(d) : d[j].agentID = "" } } = containers
              /\ \A b \in (DOMAIN agentData) \ {a} :
                   { d[i].id : i \in { j \in 1..Len(d) : d[j].agentID = b } }
                     = Range(agentData[b])

\* a1 reported c4, a pass saw it, and a1 has since reported an empty
\* snapshot while a2 still reports c5
C16_Witness ==
  /\ passes > 0
  /\ \E i \in 1..Len(aggregated) : aggregated[i].id = "c4"
  /\ DOMAIN agentData = {"a1", "a2"}
  /\ agentData["a1"] = << >>
  /\ agentData["a2"] = << "c5" >>
  /\ agentTrigger = 1

\* C17: the errors a pass records (errors.Join of them is the last-sync
\* error) are empty when the pass met no failure, and not empty when a
\* ledger listing failed or when the remote create of a desired key without
\* a row failed.
C17_LastSyncErrorJoinsFailures ==
  [][ IsPass =>
        /\ Healthy(down', listFail') => errs' = {}
        /\ listFail' # {} => errs' # {}
        /\ (\E k \in DesiredKeys(desired') :
               /\ (CASE k[1] = "dns" -> "dns" [] k[1] = "tunnel_ingress" -> "tunnel"
                      [] OTHER -> "access") \in down'
               /\ ~(\E r \in ledger : UniqueKey(r) = k))
           => errs' # {} ]_vars

\* C18: a pass removes an orphaned row with cleanup disabled that is not
\* desired exactly when an orphan TTL above 0 is configured and the row's
\* last update is older than it; otherwise the row is still there, orphaned.
C18_PurgedOnlyAfterTTL ==
  [][ \A r \in ledger :
        ( /\ IsPass
          /\ r.status = StatusOrphaned /\ ~r.cleanup
          /\ ~IsDesired(r, desired') )
        => IF orphanTTL > 0 /\ r.updatedAt < now - orphanTTL
           THEN ~(\E x \in ledger' : x.id = r.id)
           ELSE \E x \in ledger' : x.id = r.id /\ x.status = StatusOrphaned ]_vars

\* c3 has come and gone, the TTL has run out, and the pass after that purged
\* the rows of h2 without a remote call: the rule of h2 is still in the tunnel
C18_Witness ==
  /\ orphanTTL > 0
  /\ passes >= 3 /\ containers = {} /\ now > orphanTTL
  /\ calls = {}
  /\ \E x \in Range(tunnelRemote[TunnelIDOf(DefaultTunnel)]) : x.hostname = "h2"
  /\ ~(\E r \in ledger : r.hostname = "h2")

\* C19: credential resolution for (hostname, explicitName).  When a name is
\* given and a credential has it, that credential is returned whatever the
\* zones say.  With no name, the result is the first credential of the list one
\* of whose zones covers the hostname: the zone equals the hostname, or the
\* hostname ends with "." and the zone, or the zone is "*." and a base domain
\* that equals the hostname or that the hostname ends with after a ".".  When
\* no credential covers the hostname the default credential is returned.
\* Names are compared without their trailing dot.
C19_CredentialResolution ==
  resolved.fn = "GetCredentialForZone" =>
    LET creds == resolved.config
        h == trimDot(resolved.hostname)
        endsWith(z) == \E k \in 1..(Len(h) - 1) : SubSeq(h, k + 1, Len(h)) = z
        covers(zone) ==
          LET z == trimDot(zone)
          IN  \/ z = h
              \/ endsWith(z)
              \/ /\ Len(z) >= 2
                 /\ z[1] = "*"
                 /\ (Tail(z) = h \/ endsWith(Tail(z)))
        owners == { i \in 1..Len(creds) :
                     \E j \in 1..Len(creds[i].zones) : covers(creds[i].zones[j]) }
        named == { i \in 1..Len(creds) : creds[i].name = resolved.name }
    IN  /\ (resolved.name # "" /\ named # {}) =>
             /\ resolved.out.err = ""
             /\ resolved.out.cred.name = resolved.name
             /\ \E i \in named : resolved.out.cred = creds[i]
        /\ (resolved.name = "" /\ owners # {}) =>
             /\ resolved.out.err = ""
             /\ \E i \in owners : /\ resolved.out.cred = creds[i]
                                  /\ \A k \in owners : i <= k
        /\ (resolved.name = "" /\ owners = {}) =>
             /\ resolved.out.err = ""
             /\ resolved.out.cred = creds[1]

\* a name is given for a credential whose zones do not cover the hostname,
\* while an earlier credential's wildcard zone does, and the named one is
\* returned
C19_Witness ==
  /\ resolved.fn = "GetCredentialForZone"
  /\ resolved.name = "c1"
  /\ resolved.hostname = << "b", "a", "com" >>
  /\ Len(resolved.config) = 3
  /\ resolved.config[1].name = "c2"
  /\ matchZone(resolved.config[1], resolved.hostname)
  /\ ~matchZone(resolved.config[3], resolved.hostname)
  /\ resolved.out.err = ""
  /\ resolved.out.cred.name = "c1"

\* C20: zone resolution returns the longest cached zone name that equals the
\* hostname or is a suffix of it cut at a label boundary, with that zone's id,
\* and it reports an error exactly when no cached zone is such a name.
C20_LongestZone ==
  resolved.fn = "GetZoneID" =>
    LET cache == resolved.config
        h == trimDot(resolved.hostname)
        cands == { z \in DOMAIN cache :
                     \/ z = h
                     \/ \E k \in 1..(Len(h) - 1) : SubSeq(h, k + 1, Len(h)) = z }
    IN  /\ (cands = {}) <=> (resolved.out.err # "")
        /\ cands # {} =>
             /\ resolved.out.name \in cands
             /\ \A z \in cands : Len(z) <= Len(resolved.out.name)
             /\ resolved.out.id = cache[resolved.out.name]

\* the zones example.com and b.example.com are cached and a.b.example.com
\* resolves to b.example.com
C20_Witness ==
  /\ resolved.fn = "GetZoneID"
  /\ DOMAIN resolved.config = { << "example", "com" >>, << "b", "example", "com" >> }
  /\ resolved.hostname = << "a", "b", "example", "com" >>
  /\ resolved.out.err = ""
  /\ resolved.out.name = << "b", "example", "com" >>

C22_DesiredNeverCleaned ==
  [][ \A r \in ledger :
        (IsPass /\ IsDesired(r, desired'))
        => /\ \E x \in ledger' : UniqueKey(x) = UniqueKey(r)
           /\ r.kind = "dns" => Call("dns", "delete", r.cfid) \notin calls'
           /\ r.kind = "access_app" => Call("access", "delete", r.hostname) \notin calls'
           /\ (r.kind = "tunnel_ingress"
                 /\ RemoteOf(r, dnsRemote, tunnelRemote, apps) # {})
              => RemoteOf(r, dnsRemote', tunnelRemote', apps') # {} ]_vars

C24_OrphanNotRewritten ==
  [][ \A r \in ledger :
        ( /\ IsPass
          /\ r.status = StatusOrphaned
          /\ ~IsDesired(r, desired') )
        => \A x \in ledger' :
             (x.id = r.id \/ UniqueKey(x) = UniqueKey(r))
             => /\ x = r
                /\ x.status = r.status /\ x.lastError = r.lastError
                /\ x.updatedAt = r.updatedAt ]_vars

\* a row orphaned at time 0 with cleanup disabled is still stamped 0 after a
\* pass that ran later and wrote another row
C24_Witness ==
  /\ now >= 1 /\ passes >= 3
  /\ \E r \in ledger : /\ r.status = StatusOrphaned /\ ~r.cleanup
                        /\ r.updatedAt = 0 /\ ~IsDesired(r, desired)
  /\ \E y \in ledger : y.updatedAt = now /\ y.status = StatusActive

\* C25: once a connection that replaced an older connection of the same
\* agent has reported, and as long as it is the registered connection and
\* its readPump is reading, the reconciler holds its last report as the
\* agent's snapshot.
C25_NewReportKept ==
  \A a \in DOMAIN server.registered :
     LET c == server.registered[a]
     IN  ( /\ server.conns[c].st = "reading"
           /\ server.conns[c].reported
           /\ \E o \in 1..(c - 1) : server.conns[o].agent = a )
         => /\ a \in DOMAIN agentData
            /\ agentData[a] = server.conns[c].last

\* C26: every snapshot stored by UpdateAgentData is read by a later pass.
\* When the call returns a signal is on agentTrigger, whether the call's own
\* send went through or was dropped; a signal on agentTrigger is followed by a
\* pass; and a pass reads the snapshots stored when it starts, so that pass
\* reads the stored snapshot or a newer one of the same agent.
C26_SnapshotReconciled ==
  /\ [][ ( /\ passes' = passes
           /\ DOMAIN agentData \subseteq DOMAIN agentData'
           /\ (agentData' # agentData \/ agentTrigger' # agentTrigger) )
         => agentTrigger' > 0 ]_vars
  /\ [][ IsPass => aggregated' \in DesiredOrders(containers', agentData') ]_vars
  /\ \A n \in 0..(MaxPasses - 1) :
        (agentTrigger > 0 /\ passes = n) ~> (passes > n)

\* both agents have reported, the second report's signal was dropped because
\* the first was pending, and the one pass since read both snapshots
C26_Witness ==
  /\ passes = 1 /\ agentTrigger = 0
  /\ DOMAIN agentData = {"a1", "a2"}
  /\ agentData["a1"] = << "c4" >> /\ agentData["a2"] = << "c5" >>
  /\ { aggregated[i].id : i \in 1..Len(aggregated) } = {"c4", "c5"}

\* C27: every trigger the loop receives (a container start, stop, die or
\* destroy event, an agent-data trigger, a periodic tick) is followed by one
\* full pass over the then-current desired state: a step of the loop that
\* changes the container map or takes the agent signal is a pass, and the pass
\* aggregates the map and the snapshots as they are after the step.
C27_TriggerThenPass ==
  [][(containers' # containers \/ agentTrigger' < agentTrigger)
       => (IsPass /\ aggregated' \in DesiredOrders(containers', agentData'))]_vars

\* C28: after a periodic tick whose listing succeeds, the container map is
\* exactly the set of listed containers that carry labels, the agent
\* snapshots are untouched, and a pass reconciles that state.  A tick is the
\* pass that neither follows a change of the host's containers nor takes the
\* agent signal.
C28_TickResyncs ==
  [][(IsPass /\ running' = running /\ agentTrigger' = agentTrigger)
       => /\ containers' = running \ UnlabelledIds
          /\ agentData' = agentData
          /\ aggregated' \in DesiredOrders(containers', agentData')]_vars

\* both labelled containers entered the map in one pass, which only the
\* resynchronisation can do; the unlabelled one is listed and left out; the
\* agent's snapshot is still there and the pass wrote rows for c2 and c3
C28_Witness ==
  /\ passes = 1
  /\ running = {"c2", "c3", "c9"}
  /\ containers = {"c2", "c3"}
  /\ "a1" \in DOMAIN agentData
  /\ agentData["a1"] = << "c4" >>
  /\ \E r \in ledger : r.containerID = "c2" /\ r.status = StatusActive
  /\ \E r \in ledger : r.containerID = "c3" /\ r.status = StatusActive

\* C29: when several sources declare the same uniqueness key the winner is
\* chosen by a fixed order: a pass over the same set of sources as the pass
\* before it keeps, for every key, the source that won before, and the
\* owning container recorded in the ledger row of that key does not change.
C29_SameWinner ==
  [][(IsPass /\ passes >= 1 /\ Range(aggregated') = Range(aggregated))
       => LET winners(des) ==
                { << "dns", e.service.hostname, e.service.type, e.container.id >> :
                    e \in Range(dnsDesiredMap(dnsEntries(des), {})) }
                \cup
                UNION { { << "tunnel", e.service.hostname, e.service.path, e.container.id >> :
                            e \in Range(tunnelDesiredMap(
                                           SelectSeq(tunnelEntries(des),
                                                     LAMBDA x : tunnelName(x.service) = n), {})) } :
                        n \in { tunnelName(x.service) : x \in Range(tunnelEntries(des)) } }
          IN  /\ winners(desired') = winners(desired)
              /\ \A r \in ledger : \A q \in ledger' :
                    q.id = r.id => q.containerID = r.containerID]_vars

\* C30: after a pass in which all remote calls succeed, the rule list of every
\* gateway holds one rule for each desired ingress entry routed to it and ends
\* with the catch-all, also when several tunnel names resolve to one gateway.
C30_AllRulesPushed ==
  [][(IsPass /\ Healthy(down', listFail'))
       => \A e \in Range(tunnelEntries(desired')) :
            LET cfg == tunnelRemote'[TunnelIDOf(tunnelName(e.service))]
            IN  /\ \E i \in 1..Len(cfg) : /\ cfg[i].hostname = e.service.hostname
                                           /\ cfg[i].path = e.service.path
                /\ cfg[Len(cfg)] = CatchAll]_vars

\* C31: after a pass in which the gateway's reconcile succeeded, every desired
\* ingress entry, identified by hostname and path, has its own ledger row in
\* status active carrying that hostname and path, also for entries that share
\* a hostname and differ in path.
C31_RowPerEntry ==
  [][(IsPass /\ Healthy(down', listFail'))
       => \A e \in Range(tunnelEntries(desired')) :
            \E r \in ledger' : /\ r.kind = "tunnel_ingress"
                                /\ r.hostname = e.service.hostname
                                /\ r.path = e.service.path
                                /\ r.status = StatusActive]_vars

\* C32: in a pass whose remote calls succeed the full rule list of the gateway
\* is pushed if and only if the remote rule list, ignoring rule order and the
\* catch-all, differs from the desired list in its set of hostname and path
\* keys or in the backend target or origin options of some key; when they
\* match, no push is issued.  The origin options of a rule match when the
\* remote rule holds the duration the desired service asks for.
C32_PushIffDiffers ==
  [][(IsPass /\ Healthy(down', listFail') /\ tunnelEntries(desired') # << >>)
       => LET want == { [hostname |-> e.service.hostname, path |-> e.service.path,
                         service |-> e.service.service,
                         originRequest |-> parseDurationToSeconds(e.service.originRequest)] :
                          e \in Range(tunnelDesiredMap(tunnelEntries(desired'), {})) }
              have == { x \in Range(tunnelRemote["t1"]) : x.hostname # "" }
              rules == SelectSeq(tunnelRemote["t1"], LAMBDA x : x.hostname # "")
          IN  (Call("tunnel", "replace", "t1") \in calls')
                <=> (have # want \/ Len(rules) # Cardinality(want))]_vars

\* C35: for a naming entry whose target is `container` the content sent to
\* the remote system is the container's first network address, when the
\* record is created and on every later update: after a pass whose calls
\* succeed the remote record of such an entry holds that address.
C35_ContainerAddress ==
  [][(IsPass /\ Healthy(down', listFail'))
       => \A e \in Range(dnsDesiredMap(dnsEntries(desired'), {})) :
            e.service.target = "container"
              => \A x \in dnsRemote' :
                   (x.name = e.service.hostname /\ x.type = e.service.type)
                     => x.content = e.container.ip]_vars

\* C33: if the remote create of a naming record is rejected because a record
\* of that name and type exists, the operator looks the record up and
\* persists an active ledger row carrying the existing record's remote id; no
\* second remote record is created and no error row is written for the key.
\* The case is a desired key without a listed row whose record exists
\* remotely before the pass.
C33_ExistingRecordAdopted ==
  [][(IsPass /\ Healthy(down', listFail'))
       => \A e \in Range(dnsDesiredMap(dnsEntries(desired'), {})) :
            LET isKey(x) == x.kind = "dns" /\ x.hostname = e.service.hostname
                            /\ x.recordType = e.service.type
                isRec(x) == x.name = e.service.hostname /\ x.type = e.service.type
            IN  ((\A x \in ledger : ~isKey(x)) /\ (\E x \in dnsRemote : isRec(x)))
                  => /\ \E x \in ledger' : /\ isKey(x)
                                            /\ x.status = StatusActive
                                            /\ x.cfid = RecID(e.service.hostname, e.service.type)
                     /\ \A x \in ledger' : isKey(x) => x.status # StatusError
                     /\ { x \in dnsRemote' : isRec(x) } = { x \in dnsRemote : isRec(x) }]_vars

\* c10's row for h1/A is active over a record that still holds the content
\* c4 gave it: the row was purged after c4 left and the record adopted
C33_Witness ==
  /\ \E x \in ledger : /\ x.kind = "dns" /\ x.hostname = "h1" /\ x.recordType = "A"
                        /\ x.containerID = "c10" /\ x.status = StatusActive
                        /\ x.cfid = RecID("h1", "A")
  /\ \E x \in dnsRemote : x.name = "h1" /\ x.type = "A" /\ x.content = "ip2"
  /\ Call("dns", "create", RecID("h1", "A")) \in calls

\* C34: after a pass in which all remote calls succeed, the remote record of
\* every desired naming entry with a literal target has the desired content
\* and proxy flag, also when the record existed remotely and was adopted.
C34_RecordConverges ==
  [][(IsPass /\ Healthy(down', listFail'))
       => \A e \in Range(dnsDesiredMap(dnsEntries(desired'), {})) :
            e.service.target \notin {"auto", "", "container"}
              => \A x \in dnsRemote' :
                   (x.name = e.service.hostname /\ x.type = e.service.type)
                     => (x.content = e.service.target /\ x.proxied = e.service.proxied)]_vars

\* C36: across any number of passes, including passes in which the
\* application create or update call fails, the number of reusable policy
\* objects made for a hostname and not deleted stays bounded by the size of
\* that hostname's policy set (one policy per template here): policy objects
\* do not accumulate from pass to pass.
C36_PoliciesBounded ==
  \A h \in { p.hostname : p \in accessPolicies } :
     Cardinality({ p \in accessPolicies : p.hostname = h }) <= 1


\* C37: binding resolution yields at most one binding per hostname; the
\* hostnames bound are exactly those with a service whose reference names a
\* template defined by some container of the list; each binding belongs to
\* the first such service of its hostname and carries the template registered
\* first under that name; a reference to an undefined template binds nothing.
C37_FirstDefinedReferenceBinds ==
  resolved.fn = "resolveAccessReferences" =>
    LET cs == resolved.config
        out == resolved.out
        cands == accessCandidates(cs)
        defined == UNION { cs[i].policies : i \in 1..Len(cs) }
        valid == { k \in 1..Len(cands) : /\ cands[k].service.access # ""
                                         /\ cands[k].service.access \in defined }
    IN  /\ \A i, j \in 1..Len(out) : out[i].hostname = out[j].hostname => i = j
        /\ { out[i].hostname : i \in 1..Len(out) }
             = { cands[k].service.hostname : k \in valid }
        /\ \A i \in 1..Len(out) :
             \E k \in valid :
               /\ cands[k].service.hostname = out[i].hostname
               /\ \A l \in valid : cands[l].service.hostname = out[i].hostname => k <= l
               /\ out[i].containerID = cands[k].container.id
               /\ out[i].serviceName = cands[k].service.serviceName
               /\ out[i].policy.name = cands[k].service.access
               /\ \E d \in 1..Len(cs) :
                    /\ out[i].policy.name \in cs[d].policies
                    /\ \A e \in 1..(d - 1) : out[i].policy.name \notin cs[e].policies
                    /\ out[i].policy.definedBy = cs[d].id

\* the list c11, c12, c2: the tunnel service of c11 references an undefined
\* template, so h1 is bound to the DNS service of c11 with the template that
\* c12 registered before c2
C37_Witness ==
  /\ resolved.fn = "resolveAccessReferences"
  /\ Len(resolved.config) = 3
  /\ resolved.config[1].id = "c11"
  /\ resolved.config[2].id = "c12"
  /\ resolved.config[3].id = "c2"
  /\ Len(resolved.out) = 1
  /\ resolved.out[1].hostname = "h1"
  /\ resolved.out[1].serviceName = "web11"
  /\ resolved.out[1].policy = [name |-> "pol", definedBy |-> "c12"]


\* C38: after a pass whose remote calls succeed and in which the gateway's
\* rule list was pushed, every desired ingress hostname of the gateway has a
\* remote naming record pointing at the gateway's alias target, and no record
\* of that hostname points elsewhere: a missing record is created and an
\* existing record that points elsewhere is changed.
C38_HostnamePointsAtGateway ==
  [][(IsPass /\ Healthy(down', listFail') /\ Call("tunnel", "replace", "t1") \in calls')
       => \A e \in Range(tunnelEntries(desired')) :
            /\ \E x \in dnsRemote' : /\ x.name = e.service.hostname
                                       /\ x.type = "CNAME"
                                       /\ x.content = TunnelTarget("t1")
            /\ \A x \in dnsRemote' : x.name = e.service.hostname
                                         => /\ x.type = "CNAME"
                                            /\ x.content = TunnelTarget("t1")]_vars


\* C39: a naming service that names no credential in its labels is routed by
\* zone matching: its create, update and delete calls all use the first
\* credential one of whose zones matches the hostname, the default credential
\* when none matches, so the record is deleted with the credential it was
\* created with.
C39_RoutedByZone ==
  (resolved.fn = "DNSService" /\ resolved.name = "") =>
    LET creds == resolved.config
        owners == { i \in 1..Len(creds) : matchZone(creds[i], resolved.hostname) }
        byZone == IF owners = {} THEN creds[1]
                  ELSE creds[CHOOSE i \in owners : \A j \in owners : i <= j]
    IN  /\ resolved.out.create = [err |-> "", cred |-> byZone]
        /\ resolved.out.update = [err |-> "", cred |-> byZone]
        /\ resolved.out.delete = [err |-> "", cred |-> byZone]


\* C40: for any interleaving of concurrent GetClient calls for one credential
\* name (of a credential that carries a token), exactly one client is
\* constructed for the name and every call returns that instance: at any
\* moment at most one client has been constructed per name, and once a call
\* for the name has returned exactly one, which is the one it returned.
C40_OneClientPerName ==
  \A name \in {"default", "c1"} :
     LET made == { i \in 1..Len(cm.built) : cm.built[i] = name }
         back == { g \in DOMAIN cm.calls : /\ cm.calls[g].pc = "returned"
                                           /\ cm.calls[g].cred = name }
     IN  /\ Cardinality(made) <= 1
         /\ \A g \in back : /\ cm.calls[g].err = ""
                              /\ made = { cm.calls[g].client }

\* three calls for the credential c1 found the cache empty under the read
\* lock; the first to take the write lock constructed the client, the other
\* two found it at the double-check and returned it
C40_Witness ==
  /\ cm.built = << "c1" >>
  /\ \A g \in DOMAIN cm.calls : /\ cm.calls[g].pc = "returned"
                                 /\ cm.calls[g].cred = "c1"
                                 /\ cm.calls[g].client = 1
  /\ cm.calls["g2"].at = "new"
  /\ cm.calls["g1"].at = "second"
  /\ cm.calls["g3"].at = "second"
====
